---- MODULE Spec2Model ----
(***************************************************************************)
(* A model of the TrueVault JavaScript SDK client (src/index.js, the       *)
(* class TrueVaultClient of lines 570-1866): the constructor and its       *)
(* Authorization-header derivation, the fetch-based request primitive      *)
(* performLegacyRequest / performJSONRequest, and the public operations     *)
(* built on it.                                                            *)
(*                                                                         *)
(* JavaScript values are tagged records, so that typeof, truthiness,       *)
(* hasOwnProperty and property reads behave as they do in the language:    *)
(* a JavaScript string is a TLA+ string, an object is a function from      *)
(* property names to values, an absent property is a name outside DOMAIN.  *)
(***************************************************************************)
EXTENDS Integers, Sequences, FiniteSets, TLC

-----------------------------------------------------------------------------
(* JavaScript values *)

Undefined == [type |-> "undefined"]
Null == [type |-> "null"]
Str(s) == [type |-> "string", s |-> s]
Num(n) == [type |-> "number", n |-> n]
Bool(b) == [type |-> "boolean", b |-> b]
Obj(props) == [type |-> "object", props |-> props]
Arr(items) == [type |-> "array", items |-> items]

\* the object literal {}
EmptyProps == [k \in {} |-> Undefined]
\* the object literal {k: v}
Prop(k, v) == [x \in {k} |-> v]

\* !!v
Truthy(v) ==
    CASE v.type = "undefined" -> FALSE
      [] v.type = "null" -> FALSE
      [] v.type = "string" -> v.s # ""
      [] v.type = "number" -> v.n # 0
      [] v.type = "boolean" -> v.b
      [] OTHER -> TRUE

\* typeof v
TypeOf(v) ==
    CASE v.type = "null" -> "object"
      [] v.type = "array" -> "object"
      [] OTHER -> v.type

\* o.hasOwnProperty(k) for an object o
HasOwn(o, k) == o.type = "object" /\ k \in DOMAIN o.props

\* o[k] for an object o: undefined when the property is absent
Get(o, k) == IF HasOwn(o, k) THEN o.props[k] ELSE Undefined

\* reading a property of null or undefined throws a TypeError
CanRead(v) == v.type \notin {"null", "undefined"}

\* `${v}` for the values that reach a template literal here
ToStr(v) ==
    CASE v.type = "string" -> v.s
      [] v.type = "null" -> "null"
      [] v.type = "undefined" -> "undefined"
      [] v.type = "boolean" -> (IF v.b THEN "true" ELSE "false")
      [] OTHER -> "[object Object]"

-----------------------------------------------------------------------------
(* base64.encode of the base-64 package (src/index.js line 520) *)

\* F(e) with e computed once: a bound variable holds a value, where the
\* parameter of an operator and a name of a LET stand for an expression
Eval(e, F(_)) == CHOOSE out \in {F(x) : x \in {e}} : TRUE

\* the printable ASCII characters by code: 32 (space) to 95, and 97 to 126
AsciiTo95 ==
    " !\"#$%&'()*+,-./0123456789:;<=>?@ABCDEFGHIJKLMNOPQRSTUVWXYZ[\\]^_"
AsciiFrom97 == "abcdefghijklmnopqrstuvwxyz{|}~"

CharAt(s, i) == SubSeq(s, i, i)

\* a character outside Latin1: the euro sign, U+20AC. It is written as one
\* character of the model's own, outside the printable codes below, because
\* TLC keeps only the low byte of a character in the states it puts aside.
Euro == "\t"

\* s.charCodeAt(i - 1)
CharCodeAt(s, i) ==
    LET c == CharAt(s, i) IN
    IF c = Euro THEN 8364
    ELSE IF \E n \in 1..Len(AsciiFrom97) : CharAt(AsciiFrom97, n) = c
    THEN 96 + (CHOOSE n \in 1..Len(AsciiFrom97) : CharAt(AsciiFrom97, n) = c)
    ELSE 31 + (CHOOSE n \in 1..Len(AsciiTo95) : CharAt(AsciiTo95, n) = c)

TABLE == "ABCDEFGHIJKLMNOPQRSTUVWXYZabcdefghijklmnopqrstuvwxyz0123456789+/"

\* TABLE.charAt(n) for a six-bit n
Sextet(n) == CharAt(TABLE, (n % 64) + 1)

RECURSIVE EncodeFrom(_, _)
EncodeFrom(s, pos) ==
    LET rest == Len(s) - pos + 1 IN
    IF rest <= 0 THEN ""
    ELSE IF rest = 1 THEN
        LET buffer == CharCodeAt(s, pos) IN
        Sextet(buffer \div 4) \o Sextet(buffer * 16) \o "=="
    ELSE IF rest = 2 THEN
        LET buffer == CharCodeAt(s, pos) * 256 + CharCodeAt(s, pos + 1) IN
        Sextet(buffer \div 1024) \o Sextet(buffer \div 16) \o Sextet(buffer * 4) \o "="
    ELSE
        LET buffer == CharCodeAt(s, pos) * 65536 + CharCodeAt(s, pos + 1) * 256
                        + CharCodeAt(s, pos + 2) IN
        Sextet(buffer \div 262144) \o Sextet(buffer \div 4096) \o Sextet(buffer \div 64)
            \o Sextet(buffer) \o EncodeFrom(s, pos + 3)

\* base64.encode(input) for input within Latin1
base64_encode(input) == Eval(input, LAMBDA s : EncodeFrom(s, 1))

\* base64.encode(input) throws on a character outside Latin1
base64_encode_throws(input) == \E i \in 1..Len(input) : CharCodeAt(input, i) > 255

-----------------------------------------------------------------------------
(* Outcomes of an asynchronous operation, and errors *)

Resolved(v) == [status |-> "resolved", value |-> v]
Rejected(e) == [status |-> "rejected", error |-> e]
Pending == [status |-> "pending"]

\* new Error(message), with the properties the SDK adds to it
Error(message) ==
    [name |-> "Error", message |-> message, error |-> Undefined, transaction_id |-> Undefined]
\* thrown by the language: a property read of null or undefined
TypeError ==
    [name |-> "TypeError", message |-> "Cannot read property", error |-> Undefined,
     transaction_id |-> Undefined]
\* thrown by JSON.parse or base64.decode on text they do not accept
SyntaxError ==
    [name |-> "SyntaxError", message |-> "Unexpected token", error |-> Undefined,
     transaction_id |-> Undefined]
\* what the transport rejects with
FetchError ==
    [name |-> "FetchError", message |-> "request failed", error |-> Undefined,
     transaction_id |-> Undefined]

\* thrown by base64.decode on text that is not base64
InvalidCharacterError ==
    [name |-> "InvalidCharacterError", message |-> "Invalid character", error |-> Undefined,
     transaction_id |-> Undefined]

\* the message of new Error(v)
MessageOf(v) == IF v = Undefined THEN "" ELSE ToStr(v)

-----------------------------------------------------------------------------
(* TrueVaultClient: constructor and accessors *)

DefaultHost == "https://api.truevault.com"

\* the header without the colon that ends the user name
makeHeaderForUsername_NoColon(username) ==
    "Basic " \o base64_encode(ToStr(username))

\* static _makeHeaderForUsername(username)
makeHeaderForUsername(username) ==
    "Basic " \o base64_encode(ToStr(username) \o ":")

\* the accessor without its test for a token
accessToken_NoCheck(this) == [threw |-> FALSE, value |-> this._accessToken]

\* get accessToken(): the value, or a throw when no token is set
accessToken(this) ==
    IF ~Truthy(this._accessToken)
    THEN [threw |-> TRUE, error |-> Error("No access token set. This client may have been configured with an API key or a custom auth header")]
    ELSE [threw |-> FALSE, value |-> this._accessToken]

\* get authHeader()
authHeader(this) == this._authHeader

Threw(e) == [threw |-> TRUE, error |-> e]
NewClient(hdr, tok, host) ==
    [threw |-> FALSE,
     this |-> [_authHeader |-> hdr, _accessToken |-> tok,
               host |-> IF Truthy(host) THEN host.s ELSE DefaultHost]]

\* new TrueVaultClient(authn, host): the new object, or a throw
constructor(authn, host) ==
    IF ~Truthy(authn) THEN NewClient(Null, Undefined, host)
    ELSE IF TypeOf(authn) = "object" THEN
        IF HasOwn(authn, "apiKey")
        THEN NewClient(Str(makeHeaderForUsername(Get(authn, "apiKey"))), Undefined, host)
        ELSE IF HasOwn(authn, "accessToken")
        THEN LET tok == Get(authn, "accessToken")
                 got == accessToken([_accessToken |-> tok])
             IN IF got.threw THEN Threw(got.error)
                ELSE NewClient(Str(makeHeaderForUsername(got.value)), tok, host)
        ELSE IF HasOwn(authn, "httpBasic")
        THEN NewClient(Str("Basic " \o ToStr(Get(authn, "httpBasic"))), Undefined, host)
        ELSE NewClient(Null, Undefined, host)
    ELSE Threw(Error("Invalid authentication method provided"))

-----------------------------------------------------------------------------
(* base64.decode of the base-64 package and JSON.parse, as the readers of  *)
(* user attributes use them (src/index.js line 779)                        *)

\* TABLE.indexOf(c)
IndexOf(c) == (CHOOSE n \in 1..Len(TABLE) : CharAt(TABLE, n) = c) - 1

\* String.fromCharCode(n), for the printable codes
FromCharCode(n) ==
    IF n >= 97 /\ n <= 126 THEN CharAt(AsciiFrom97, n - 96)
    ELSE IF n >= 32 /\ n <= 95 THEN CharAt(AsciiTo95, n - 31)
    ELSE "?"

\* input.replace(/==?$/, '') when the length is a multiple of four
StripPadding(s) ==
    IF Len(s) % 4 # 0 THEN s
    ELSE IF Len(s) >= 2 /\ SubSeq(s, Len(s) - 1, Len(s)) = "==" THEN SubSeq(s, 1, Len(s) - 2)
    ELSE IF Len(s) >= 1 /\ CharAt(s, Len(s)) = "=" THEN SubSeq(s, 1, Len(s) - 1)
    ELSE s

\* the decoding loop: bitStorage accumulates sextets, a byte leaves after
\* every sextet but the first of a group of four
RECURSIVE DecodeFrom(_, _, _)
DecodeFrom(s, pos, bitStorage) ==
    IF pos > Len(s) THEN ""
    ELSE LET bitCounter == pos - 1
             buffer == IndexOf(CharAt(s, pos))
             storage == IF bitCounter % 4 # 0 THEN bitStorage * 64 + buffer ELSE buffer
             shift == CASE bitCounter % 4 = 1 -> 16
                        [] bitCounter % 4 = 2 -> 4
                        [] OTHER -> 1
         IN (IF bitCounter % 4 # 0 THEN FromCharCode((storage \div shift) % 256) ELSE "")
                \o DecodeFrom(s, pos + 1, storage)

\* base64.decode(input): the decoded text, or a throw on invalid input
base64_decode(input) ==
    Eval(StripPadding(input), LAMBDA s :
    IF Len(s) % 4 = 1 \/ \E i \in 1..Len(s) : ~\E n \in 1..Len(TABLE) : CharAt(TABLE, n) = CharAt(s, i)
    THEN [threw |-> TRUE]
    ELSE [threw |-> FALSE, value |-> DecodeFrom(s, 1, 0)])

\* JSON.stringify and JSON.parse on objects, arrays, strings, integers,
\* booleans and null; of the escapes only those of " and \ occur

\* the decimal digits of a number that is not negative
RECURSIVE Digits(_)
Digits(n) ==
    IF n < 10 THEN CharAt("0123456789", n + 1)
    ELSE Digits(n \div 10) \o CharAt("0123456789", (n % 10) + 1)

RECURSIVE EscapeFrom(_, _)
EscapeFrom(s, pos) ==
    IF pos > Len(s) THEN ""
    ELSE (LET c == CharAt(s, pos) IN
          IF c = "\"" THEN "\\\"" ELSE IF c = "\\" THEN "\\\\" ELSE c)
            \o EscapeFrom(s, pos + 1)

\* QuoteJSONString(value) of JSON.stringify
QuoteJSONString(s) == "\"" \o EscapeFrom(s, 1) \o "\""

RECURSIVE SerializeJSONProperty(_)
RECURSIVE SerializeJSONArray(_, _)
RECURSIVE SerializeJSONObject(_, _, _)

\* the text of a value, or undefined for a value JSON has no text for
SerializeJSONProperty(v) ==
    CASE v.type = "string" -> Str(QuoteJSONString(v.s))
      [] v.type = "number" -> Str(IF v.n < 0 THEN "-" \o Digits(0 - v.n) ELSE Digits(v.n))
      [] v.type = "boolean" -> Str(IF v.b THEN "true" ELSE "false")
      [] v.type = "null" -> Str("null")
      [] v.type = "array" -> Str("[" \o SerializeJSONArray(v.items, 1) \o "]")
      [] v.type = "object" -> Str("{" \o SerializeJSONObject(v.props, DOMAIN v.props, TRUE) \o "}")
      [] OTHER -> Undefined

\* the elements from pos on: an element without text is written null
SerializeJSONArray(items, pos) ==
    IF pos > Len(items) THEN ""
    ELSE Eval(SerializeJSONProperty(items[pos]), LAMBDA e :
         (IF pos > 1 THEN "," ELSE "") \o (IF e = Undefined THEN "null" ELSE e.s))
            \o SerializeJSONArray(items, pos + 1)

\* the members for the keys left: a member without text is left out
SerializeJSONObject(props, keys, first) ==
    IF keys = {} THEN ""
    ELSE LET k == CHOOSE x \in keys : TRUE IN
         Eval(SerializeJSONProperty(props[k]), LAMBDA e :
            IF e = Undefined THEN SerializeJSONObject(props, keys \ {k}, first)
            ELSE (IF first THEN "" ELSE ",") \o QuoteJSONString(k) \o ":" \o e.s
                    \o SerializeJSONObject(props, keys \ {k}, FALSE))

\* JSON.stringify(value): a string, or undefined
JSON_stringify(value) == Eval(value, LAMBDA v : SerializeJSONProperty(v))

\* the character at p, or the empty text past the end
At(s, p) == IF p >= 1 /\ p <= Len(s) THEN CharAt(s, p) ELSE ""
StartsWith(s, p, word) == p + Len(word) - 1 <= Len(s) /\ SubSeq(s, p, p + Len(word) - 1) = word
Digit(c) == \E n \in 1..10 : CharAt("0123456789", n) = c
DigitValue(c) == (CHOOSE n \in 1..10 : CharAt("0123456789", n) = c) - 1

\* the result of parsing a part of the text: the value and where it ends
Fail == [ok |-> FALSE]
Parsed(v, next) == [ok |-> TRUE, value |-> v, next |-> next]

RECURSIVE SkipSpace(_, _)
SkipSpace(s, p) == IF At(s, p) = " " THEN SkipSpace(s, p + 1) ELSE p

\* a string from after its opening quote on
RECURSIVE ParseString(_, _, _)
ParseString(s, p, acc) ==
    IF p > Len(s) THEN Fail
    ELSE IF At(s, p) = "\"" THEN Parsed(acc, p + 1)
    ELSE IF At(s, p) = "\\" THEN
        IF At(s, p + 1) \in {"\"", "\\", "/"}
        THEN ParseString(s, p + 2, acc \o At(s, p + 1)) ELSE Fail
    ELSE ParseString(s, p + 1, acc \o At(s, p))

\* the digits of an integer
RECURSIVE ParseDigits(_, _, _)
ParseDigits(s, p, n) ==
    IF Digit(At(s, p)) THEN ParseDigits(s, p + 1, n * 10 + DigitValue(At(s, p)))
    ELSE Parsed(Num(n), p)

ParseNumber(s, p) ==
    IF At(s, p) = "0" THEN Parsed(Num(0), p + 1)
    ELSE IF Digit(At(s, p)) THEN ParseDigits(s, p, 0)
    ELSE Fail

RECURSIVE ParseValue(_, _)
RECURSIVE ParseElements(_, _, _)
RECURSIVE ParseMembers(_, _, _)

ParseValue(s, p0) ==
    Eval(SkipSpace(s, p0), LAMBDA p :
       IF At(s, p) = "{" THEN
            IF At(s, SkipSpace(s, p + 1)) = "}"
            THEN Parsed(Obj(EmptyProps), SkipSpace(s, p + 1) + 1)
            ELSE ParseMembers(s, p + 1, EmptyProps)
       ELSE IF At(s, p) = "[" THEN
            IF At(s, SkipSpace(s, p + 1)) = "]"
            THEN Parsed(Arr(<<>>), SkipSpace(s, p + 1) + 1)
            ELSE ParseElements(s, p + 1, <<>>)
       ELSE IF At(s, p) = "\"" THEN
            Eval(ParseString(s, p + 1, ""), LAMBDA r :
                IF r.ok THEN Parsed(Str(r.value), r.next) ELSE Fail)
       ELSE IF StartsWith(s, p, "true") THEN Parsed(Bool(TRUE), p + 4)
       ELSE IF StartsWith(s, p, "false") THEN Parsed(Bool(FALSE), p + 5)
       ELSE IF StartsWith(s, p, "null") THEN Parsed(Null, p + 4)
       ELSE IF At(s, p) = "-" THEN
            Eval(ParseNumber(s, p + 1), LAMBDA r :
                IF r.ok THEN Parsed(Num(0 - r.value.n), r.next) ELSE Fail)
       ELSE ParseNumber(s, p))

\* the elements of an array from p0 on, after those in items
ParseElements(s, p0, items) ==
    Eval(ParseValue(s, p0), LAMBDA v :
        IF ~v.ok THEN Fail
        ELSE Eval(SkipSpace(s, v.next), LAMBDA e :
             IF At(s, e) = "," THEN ParseElements(s, e + 1, Append(items, v.value))
             ELSE IF At(s, e) = "]" THEN Parsed(Arr(Append(items, v.value)), e + 1)
             ELSE Fail))

\* the member k: v added to props
AddMember(props, k, v) == [x \in DOMAIN props \cup {k} |-> IF x = k THEN v ELSE props[x]]

\* the members of an object from p0 on, after those in props
ParseMembers(s, p0, props) ==
    Eval(SkipSpace(s, p0), LAMBDA p :
        IF At(s, p) # "\"" THEN Fail
        ELSE Eval(ParseString(s, p + 1, ""), LAMBDA k :
             IF ~k.ok \/ At(s, SkipSpace(s, k.next)) # ":" THEN Fail
             ELSE Eval(ParseValue(s, SkipSpace(s, k.next) + 1), LAMBDA v :
                  IF ~v.ok THEN Fail
                  ELSE Eval(<<SkipSpace(s, v.next), AddMember(props, k.value, v.value)>>, LAMBDA e :
                       IF At(s, e[1]) = "," THEN ParseMembers(s, e[1] + 1, e[2])
                       ELSE IF At(s, e[1]) = "}" THEN Parsed(Obj(e[2]), e[1] + 1)
                       ELSE Fail))))

\* JSON.parse(text): the value, or a throw on text that is not JSON
JSON_parse(text) ==
    Eval(text, LAMBDA s :
        Eval(ParseValue(s, 1), LAMBDA r :
            IF r.ok /\ SkipSpace(s, r.next) = Len(s) + 1
            THEN [threw |-> FALSE, value |-> r.value]
            ELSE [threw |-> TRUE]))

-----------------------------------------------------------------------------
(* The request primitives *)

\* "version" of package.json
version == "1.3.1"

\* the options object of a request: absent members take fetch's defaults
NoOptions == [method |-> "GET", headers |-> EmptyProps, body |-> Undefined]
Options(method, body) == [method |-> method, headers |-> EmptyProps, body |-> body]

\* headers[name] = value
SetHeader(headers, name, value) ==
    [h \in DOMAIN headers \cup {name} |-> IF h = name THEN value ELSE headers[h]]

\* URI(uri).addQuery(name, value).toString()
addQuery(uri, name, value) ==
    uri \o (IF \E i \in 1..Len(uri) : CharAt(uri, i) = "?" THEN "&" ELSE "?")
        \o name \o "=" \o value

\* the request with the options as passed, the credential not attached
performLegacyRequest_NoHeader(this, path, options) ==
    [transport |-> "fetch",
     url |-> addQuery(this.host \o "/" \o path, "_tv_sdk", version),
     method |-> options.method, headers |-> options.headers, body |-> options.body]

\* performLegacyRequest(path, options), up to the call of tvFetch: the request
performLegacyRequest(this, path, options) ==
    LET opts == IF Truthy(authHeader(this))
                THEN [options EXCEPT !.headers = SetHeader(@, "Authorization", authHeader(this))]
                ELSE options
    IN [transport |-> "fetch",
        url |-> addQuery(this.host \o "/" \o path, "_tv_sdk", version),
        method |-> opts.method, headers |-> opts.headers, body |-> opts.body]

\* performJSONRequest(path, options)
performJSONRequest(this, path, options) ==
    performLegacyRequest(this, path,
        [options EXCEPT !.headers = SetHeader(@, "Content-Type", Str("application/json"))])

\* the error of an error envelope without the transaction id
performLegacyRequest_then_NoTransactionId(res) ==
    IF res.kind = "failure" THEN Rejected(FetchError)
    ELSE IF ~res.body.isJSON THEN Rejected(Error("non-JSON response: " \o res.body.text))
    ELSE LET json == res.body.value IN
        IF ~CanRead(json) THEN Rejected(TypeError)
        ELSE IF Get(json, "result") = Str("error") THEN
            IF ~CanRead(Get(json, "error")) THEN Rejected(TypeError)
            ELSE Rejected([Error(MessageOf(Get(Get(json, "error"), "message")))
                            EXCEPT !.error = Get(json, "error")])
        ELSE Resolved(json)

\* the error of a body that is not JSON without the text of the body
performLegacyRequest_then_NoText(res) ==
    IF res.kind = "failure" THEN Rejected(FetchError)
    ELSE IF ~res.body.isJSON THEN Rejected(Error("non-JSON response"))
    ELSE LET json == res.body.value IN
        IF ~CanRead(json) THEN Rejected(TypeError)
        ELSE IF Get(json, "result") = Str("error") THEN
            IF ~CanRead(Get(json, "error")) THEN Rejected(TypeError)
            ELSE Rejected([Error(MessageOf(Get(Get(json, "error"), "message")))
                            EXCEPT !.error = Get(json, "error"),
                                   !.transaction_id = Get(json, "transaction_id")])
        ELSE Resolved(json)

\* performLegacyRequest from the settled tvFetch on: text, parse, envelope test
performLegacyRequest_then(res) ==
    IF res.kind = "failure" THEN Rejected(FetchError)
    ELSE IF ~res.body.isJSON THEN Rejected(Error("non-JSON response: " \o res.body.text))
    ELSE LET json == res.body.value IN
        IF ~CanRead(json) THEN Rejected(TypeError)
        ELSE IF Get(json, "result") = Str("error") THEN
            IF ~CanRead(Get(json, "error")) THEN Rejected(TypeError)
            ELSE Rejected([Error(MessageOf(Get(Get(json, "error"), "message")))
                            EXCEPT !.error = Get(json, "error"),
                                   !.transaction_id = Get(json, "transaction_id")])
        ELSE Resolved(json)

\* performLegacyRequestWithProgress(method, url, formData, progressCallback,
\* responseType), up to xhr.send: the request
performLegacyRequestWithProgress(this, method, url, formData, responseType) ==
    [transport |-> "xhr", url |-> url, method |-> method,
     headers |-> SetHeader(EmptyProps, "Authorization", authHeader(this)),
     body |-> formData, responseType |-> responseType]

\* xhr.onload / xhr.onerror: the promise's outcome; an exception thrown by
\* the load handler leaves the promise pending
performLegacyRequestWithProgress_then(responseType, res) ==
    IF res.kind = "error" THEN Rejected(Error("Network error"))
    ELSE IF responseType = "json" THEN
        LET responseJson == res.response IN
        IF ~CanRead(responseJson) THEN Pending
        ELSE IF Get(responseJson, "result") = Str("error") THEN
            IF ~CanRead(Get(responseJson, "error")) THEN Pending
            ELSE Rejected([Error(MessageOf(Get(Get(responseJson, "error"), "message")))
                            EXCEPT !.error = Get(responseJson, "error")])
        ELSE Resolved(responseJson)
    ELSE IF responseType = "blob" THEN Resolved(res)
    ELSE Pending

\* array.join(',')
RECURSIVE join(_)
join(array) ==
    IF Len(array) = 0 THEN ""
    ELSE IF Len(array) = 1 THEN array[1]
    ELSE array[1] \o "," \o join(Tail(array))

\* o.k = v on an object
SetProp(o, k, v) ==
    Obj([x \in DOMAIN o.props \cup {k} |-> IF x = k THEN v ELSE o.props[x]])

-----------------------------------------------------------------------------
(* The public operations, from the settled request on *)

\* the whole response returned, as the earlier logout did
logout_then_WholeResponse(r) == r

\* logout(): the value returned after the credential is cleared
logout_then(r) ==
    IF r.status = "resolved" THEN Resolved(Get(r.value, "logout")) ELSE r

\* null attributes presented as {}, anything else decoded
readCurrentUser_then_NullToEmpty(r) ==
    IF r.status # "resolved" THEN r
    ELSE LET user == Get(r.value, "user") IN
        IF ~CanRead(user) THEN Rejected(TypeError)
        ELSE IF Get(user, "attributes") = Null THEN Resolved(SetProp(user, "attributes", Obj(EmptyProps)))
        ELSE IF Truthy(Get(user, "attributes")) THEN
            LET text == base64_decode(ToStr(Get(user, "attributes"))) IN
            IF text.threw THEN Rejected(InvalidCharacterError)
            ELSE IF JSON_parse(text.value).threw THEN Rejected(SyntaxError)
            ELSE Resolved(SetProp(user, "attributes", JSON_parse(text.value).value))
        ELSE Resolved(user)

\* attributes that are absent presented as {} as well
readCurrentUser_then_AbsentToEmpty(r) ==
    IF r.status # "resolved" THEN r
    ELSE LET user == Get(r.value, "user") IN
        IF ~CanRead(user) THEN Rejected(TypeError)
        ELSE IF Truthy(Get(user, "attributes")) THEN
            LET text == base64_decode(ToStr(Get(user, "attributes"))) IN
            IF text.threw THEN Rejected(InvalidCharacterError)
            ELSE IF JSON_parse(text.value).threw THEN Rejected(SyntaxError)
            ELSE Resolved(SetProp(user, "attributes", JSON_parse(text.value).value))
        ELSE Resolved(SetProp(user, "attributes", Obj(EmptyProps)))

\* readCurrentUser(full)
readCurrentUser_then(r) ==
    IF r.status # "resolved" THEN r
    ELSE LET user == Get(r.value, "user") IN
        IF ~CanRead(user) THEN Rejected(TypeError)
        ELSE IF Truthy(Get(user, "attributes")) THEN
            LET text == base64_decode(ToStr(Get(user, "attributes"))) IN
            IF text.threw THEN Rejected(InvalidCharacterError)
            ELSE IF JSON_parse(text.value).threw THEN Rejected(SyntaxError)
            ELSE Resolved(SetProp(user, "attributes", JSON_parse(text.value).value))
        ELSE Resolved(user)

\* the first id sent twice whatever the number of ids
requestDocumentIds_AlwaysDoubled(documentIds) ==
    IF Len(documentIds) >= 1 THEN <<documentIds[1], documentIds[1]>> ELSE documentIds

\* getDocuments(vaultId, documentIds): the ids put in the request path
requestDocumentIds(documentIds) ==
    IF Len(documentIds) = 1 THEN <<documentIds[1], documentIds[1]>> ELSE documentIds

\* getDocuments(vaultId, documentIds)
getDocuments_then(r) ==
    IF r.status = "resolved" THEN Resolved(Get(r.value, "documents")) ELSE r

\* the user's id returned in place of the token
generateAccessToken_then_UserId(r) ==
    IF r.status # "resolved" THEN r
    ELSE IF ~CanRead(Get(r.value, "user")) THEN Rejected(TypeError)
    ELSE Resolved(Get(Get(r.value, "user"), "id"))

\* generateAccessToken(accountId, username, password, mfaCode, host)
generateAccessToken_then(r) ==
    IF r.status # "resolved" THEN r
    ELSE IF ~CanRead(Get(r.value, "user")) THEN Rejected(TypeError)
    ELSE Resolved(Get(Get(r.value, "user"), "access_token"))

\* the payload inspected as an envelope, as the JSON operations do
getBlob_then_Inspecting(res) ==
    IF res.kind = "failure" THEN Rejected(FetchError)
    ELSE IF res.body.isJSON /\ Get(res.body.value, "result") = Str("error")
    THEN Rejected(Error(MessageOf(Get(Get(res.body.value, "error"), "message"))))
    ELSE Resolved(Obj(Prop("blob", [type |-> "blob", body |-> res.body])))

\* getBlob(vaultId, blobId)
getBlob_then(res) ==
    IF res.kind = "failure" THEN Rejected(FetchError)
    ELSE Resolved(Obj(Prop("blob", [type |-> "blob", body |-> res.body])))

\* createBlobWithProgress / updateBlobWithProgress
createBlobWithProgress_then(r) ==
    IF r.status = "resolved" THEN Resolved(Get(r.value, "blob")) ELSE r

\* getBlobWithProgress(vaultId, blobId, progressCallback)
getBlobWithProgress_then(r) ==
    IF r.status = "resolved" THEN Resolved(Obj(Prop("blob", r.value.response))) ELSE r

\* deleteDocument(vaultId, documentId): {id: response.document_id, owner_id: response.owner_id}
deleteDocument_then(r) ==
    IF r.status # "resolved" THEN r
    ELSE Resolved(Obj([id |-> Get(r.value, "document_id"), owner_id |-> Get(r.value, "owner_id")]))

\* an operation that awaits its request and returns nothing
ReturnNothing(r) == IF r.status = "resolved" THEN Resolved(Undefined) ELSE r

\* the JSON text sent as it is, without the base64 encoding
Encoded_JSONOnly(value) == [threw |-> FALSE, value |-> ToStr(JSON_stringify(value))]

\* base64.encode(JSON.stringify(value)): the text, or the throw of
\* base64.encode
Encoded(value) ==
    Eval(ToStr(JSON_stringify(value)), LAMBDA text :
        IF base64_encode_throws(text) THEN Threw(InvalidCharacterError)
        ELSE [threw |-> FALSE, value |-> base64_encode(text)])

\* JSON.parse(base64.decode(text)): the value, or the throw of either
Decoded(text) ==
    Eval(base64_decode(text), LAMBDA t :
        IF t.threw THEN Threw(InvalidCharacterError)
        ELSE Eval(JSON_parse(t.value), LAMBDA v :
             IF v.threw THEN Threw(SyntaxError) ELSE [threw |-> FALSE, value |-> v.value]))

\* doc => { if (doc[field]) { doc[field] = JSON.parse(base64.decode(doc[field])) } return doc }
DecodeField(doc, field) ==
    IF ~CanRead(doc) THEN Threw(TypeError)
    ELSE IF ~Truthy(Get(doc, field)) THEN [threw |-> FALSE, value |-> doc]
    ELSE Eval(Decoded(ToStr(Get(doc, field))), LAMBDA d :
         IF d.threw THEN d ELSE [threw |-> FALSE, value |-> SetProp(doc, field, d.value)])

\* items.map(doc => ...) with the callback above
RECURSIVE MapDecodeField(_, _)
MapDecodeField(items, field) ==
    IF Len(items) = 0 THEN [threw |-> FALSE, value |-> <<>>]
    ELSE Eval(DecodeField(Head(items), field), LAMBDA h :
         IF h.threw THEN h
         ELSE Eval(MapDecodeField(Tail(items), field), LAMBDA t :
              IF t.threw THEN t ELSE [threw |-> FALSE, value |-> <<h.value>> \o t.value]))

\* the whole response returned in place of its field
ReturnField_WholeResponse(r, field) == r

\* return response[field]
ReturnField(r, field) ==
    IF r.status = "resolved" THEN Resolved(Get(r.value, field)) ELSE r

\* updateCurrentUser(attributes)
updateCurrentUser_then(r) ==
    IF r.status # "resolved" THEN r
    ELSE LET user == DecodeField(Get(r.value, "user"), "attributes") IN
         IF user.threw THEN Rejected(user.error) ELSE Resolved(user.value)

\* readUser(userId): users[0] of readUsers([userId])
readUser_then(r) ==
    LET users == ReturnField(r, "users") IN
    IF users.status # "resolved" THEN users
    ELSE IF ~CanRead(users.value) THEN Rejected(TypeError)
    ELSE IF users.value.type = "array" /\ Len(users.value.items) > 0
         THEN Resolved(users.value.items[1])
    ELSE Resolved(Undefined)

\* searchUsers / searchDocuments: {info: response.data.info, documents} with
\* the field of every item of response.data.documents decoded
searchResult(r, field) ==
    IF r.status # "resolved" THEN r
    ELSE LET data == Get(r.value, "data") IN
         IF ~CanRead(data) THEN Rejected(TypeError)
         ELSE IF Get(data, "documents").type # "array" THEN Rejected(TypeError)
         ELSE LET documents == MapDecodeField(Get(data, "documents").items, field) IN
              IF documents.threw THEN Rejected(documents.error)
              ELSE Resolved(Obj([info |-> Get(data, "info"), documents |-> Arr(documents.value)]))

-----------------------------------------------------------------------------
(* Inputs: what callers pass and what the transport delivers *)

MaxClients == 2
MaxCalls == 2
MaxIds == 2

\* credentials a caller may pass: keys, tokens and raw Basic values
Credentials == {"", "k", "ab", "t.1"}

AuthnInputs ==
    {Null, Undefined, Obj(EmptyProps), Str(""), Str("key"), Num(0), Num(7), Bool(FALSE), Bool(TRUE)}
        \cup {Obj(Prop("apiKey", Str(c))) : c \in Credentials}
        \cup {Obj(Prop("accessToken", Str(c))) : c \in Credentials}
        \cup {Obj(Prop("httpBasic", Str(c))) : c \in Credentials}

HostInputs == {Undefined, Str("https://tv.test")}

\* the clients operations are invoked on: one of each kind of credential
ClientAuthn ==
    {Null, Obj(Prop("apiKey", Str("k"))), Obj(Prop("accessToken", Str("t.1"))),
     Obj(Prop("httpBasic", Str("ab")))}

\* document ids: "d1", "d2", ...
DocId(n) == "d" \o CharAt("123456789", n)
\* the id lists passed to getDocuments: <<>>, <<d1>>, <<d1, d2>>, ...
IdLists == {[i \in 1..n |-> DocId(i)] : n \in 0..MaxIds}

\* a response body: text that is not JSON, or the value JSON text denotes
NonJSON(text) == [isJSON |-> FALSE, text |-> text]
JSON(value) == [isJSON |-> TRUE, value |-> value]

Response(status, body) == [kind |-> "response", status |-> status, body |-> body]
Failure == [kind |-> "failure"]
NoResult == [kind |-> "none"]

ErrorEnvelope ==
    Obj([result |-> Str("error"),
         error |-> Obj([code |-> Str("AUTH.UNSUCCESSFUL"), message |-> Str("bad login"),
                        type |-> Str("auth")]),
         transaction_id |-> Str("abc-123")])

Success(name, payload) ==
    Obj([x \in {"result", "transaction_id", name} |->
            IF x = "result" THEN Str("success")
            ELSE IF x = "transaction_id" THEN Str("def-456") ELSE payload])

\* how a request fails at any endpoint: in transport, or with an error envelope
Failures == {Failure, Response(401, JSON(ErrorEnvelope))}

\* the other answers any endpoint may give in place of its success envelope
OddAnswers ==
    {Response(502, NonJSON("<html>Bad Gateway</html>")),
     Response(200, NonJSON("")),
     Response(500, JSON(Obj([result |-> Str("error"), transaction_id |-> Str("abc-123")]))),
     Response(200, JSON(Null))}

\* the document the server holds under an id
Document(id) == Obj([id |-> Str(id), document |-> Obj(Prop("name", Str(id)))])

RECURSIVE Reverse(_)
Reverse(seq) == IF Len(seq) = 0 THEN <<>> ELSE Append(Reverse(Tail(seq)), Head(seq))

\* the multiget results for the ids of a request: one per id, in the
\* request's order or in the server's own, or one per distinct id
DocumentResults(ids) ==
    LET perId == [i \in 1..Len(ids) |-> Document(ids[i])] IN
    {perId, Reverse(perId)}
        \cup (IF Len(ids) > 1 /\ ids[1] = ids[Len(ids)] THEN {<<perId[1]>>} ELSE {})

User(props) == Obj(props)
ServerUsers ==
    {User([id |-> Str("u1")]),
     User([id |-> Str("u1"), attributes |-> Null]),
     User([id |-> Str("u1"), attributes |-> Str("e30=")]),
     User([id |-> Str("u1"), attributes |-> Str("eyJhIjoxfQ==")])}

LoginUsers ==
    {User([id |-> Str("u1"), access_token |-> Str("s.2")]),
     User([id |-> Str("u1"), access_token |-> Str("")])}

BlobBody == NonJSON("BLOBDATA")

\* the values a caller passes as attributes, policy, schema fields, search
\* option or document contents
AttributeInputs ==
    {Obj(EmptyProps),
     Obj(Prop("a", Num(1))),
     Obj(Prop("q", Str("say \"hi\" \\"))),
     Obj([o |-> Obj([b |-> Bool(TRUE), n |-> Null]), l |-> Arr(<<Num(1), Str("2"), Num(10)>>)]),
     Obj(Prop("n", Str(Euro)))}
FieldInputs == {Obj(Prop("a", Num(1))), Obj(Prop("n", Str(Euro)))}

\* the users a search or a multi-user read returns
UserHits ==
    {<<>>,
     <<User([id |-> Str("u1"), attributes |-> Str("e30=")]), User([id |-> Str("u2")]),
       User([id |-> Str("u3"), attributes |-> Null])>>,
     <<User([id |-> Str("u2"), username |-> Str("b"), attributes |-> Str("eyJhIjoxfQ==")]),
       User([id |-> Str("u1"), username |-> Str("a"), attributes |-> Str("e30=")])>>}

\* the documents a search returns
DocumentHits ==
    {<<>>,
     <<Obj([id |-> Str("d2"), document |-> Str("eyJhIjoxfQ==")]), Obj([id |-> Str("d1")])>>}

\* the success envelopes of an operation's endpoint
Successes(call) ==
    CASE call.op = "logout" -> {Success("logout", User([id |-> Str("u1")]))}
      [] call.op = "readCurrentUser" -> {Success("user", u) : u \in ServerUsers}
      [] call.op = "getDocuments" ->
            {Success("documents", Arr(docs)) :
                docs \in DocumentResults(requestDocumentIds(call.args.documentIds))}
      [] call.op \in {"login", "generateAccessToken"} ->
            {Success("user", u) : u \in LoginUsers} \cup {Obj([result |-> Str("success")])}
      [] call.op \in {"createBlobWithProgress", "updateBlobWithProgress"} ->
            {Success("blob", Obj([id |-> Str("b1")]))}
      [] call.op = "updateCurrentUser" ->
            {Success("user", User([id |-> Str("u1"),
                                   attributes |-> Str(Encoded(call.args.attributes).value)])),
             Success("user", User([id |-> Str("u1"), attributes |-> Null])),
             Success("user", User([id |-> Str("u1")]))}
      [] call.op \in {"createUser", "updateUserAttributes"} ->
            {Success("user", User([id |-> Str("u1"), username |-> Str("user")]))}
      [] call.op \in {"createGroup", "updateGroup"} ->
            {Success("group", Obj([id |-> Str("g1")]))}
      [] call.op \in {"createSchema", "updateSchema"} ->
            {Success("schema", Obj([id |-> Str("s1")]))}
      [] call.op \in {"createUserSchema", "updateUserSchema"} ->
            {Success("user_schema", Obj([id |-> Str("s1")]))}
      [] call.op \in {"createDocument", "updateDocument"} ->
            {Success("document", Obj([id |-> Str("d1")]))}
      [] call.op = "searchUsers" ->
            {Success("data", Obj([info |-> Obj([current_page |-> Num(1), num_pages |-> Num(1)]), documents |-> Arr(hits)])) :
                hits \in UserHits}
      [] call.op = "searchDocuments" ->
            {Success("data", Obj([info |-> Obj([current_page |-> Num(1), num_pages |-> Num(1)]), documents |-> Arr(hits)])) :
                hits \in DocumentHits}
      [] call.op \in {"readUsers", "readUser"} ->
            {Success("users", Arr(hits)) : hits \in UserHits}
      [] call.op \in {"performLegacyRequest", "performJSONRequest"} ->
            {Success("data", Obj([id |-> Str("x1")]))}
      [] call.op \in {"updateUserStatus", "updateUserUsername", "updateUserPassword", "deleteUser"} ->
            {Success("user", User([id |-> Str("u1"), username |-> Str("user")]))}
      [] call.op \in {"deleteGroup", "readFullGroup"} -> {Success("group", Obj([id |-> Str("g1")]))}
      [] call.op \in {"createVault", "readVault", "updateVault", "deleteVault"} ->
            {Success("vault", Obj([id |-> Str("v1"), name |-> Str("vault")]))}
      [] call.op = "readSchema" -> {Success("schema", Obj([id |-> Str("s1")]))}
      [] call.op \in {"createBlob", "updateBlob", "updateBlobOwner", "deleteBlob"} ->
            {Success("blob", Obj([id |-> Str("b1")]))}
      [] call.op = "deleteDocument" ->
            {Obj([result |-> Str("success"), transaction_id |-> Str("def-456"),
                  document_id |-> Str("d1"), owner_id |-> o]) : o \in {Null, Str("u1")}}
      [] call.op \in {"finalizeMfaEnrollment", "unenrollMfa", "sendPasswordResetEmail"} ->
            {Obj([result |-> Str("success"), transaction_id |-> Str("def-456")]),
             Success("user", User([id |-> Str("u1")]))}
      [] call.op \in {"addUsersToGroup", "removeUsersFromGroup", "deleteSchema"} ->
            {Obj([result |-> Str("success"), transaction_id |-> Str("def-456")]),
             Success("group", Obj([id |-> Str("g1")]))}
      [] OTHER -> {}

\* what the transport may deliver for a request of the operation
Results(call) ==
    CASE call.op = "getBlob" ->
            {Failure, Response(200, BlobBody), Response(404, JSON(ErrorEnvelope))}
      [] call.op \in {"createBlobWithProgress", "updateBlobWithProgress"} ->
            {[kind |-> "error"], [kind |-> "load", response |-> ErrorEnvelope],
             [kind |-> "load", response |-> Null]}
                \cup {[kind |-> "load", response |-> e] : e \in Successes(call)}
      [] call.op = "getBlobWithProgress" ->
            {[kind |-> "error"],
             [kind |-> "load", response |-> [type |-> "blob", body |-> BlobBody]],
             [kind |-> "load", response |-> [type |-> "blob", body |-> JSON(ErrorEnvelope)]]}
      [] OTHER ->
            Failures \cup OddAnswers \cup {Response(200, JSON(e)) : e \in Successes(call)}

\* the results that tell the outcomes of a call apart: a transport failure,
\* an error envelope, and the endpoint's plain success
PlainSuccess(call) ==
    CASE call.op = "readCurrentUser" -> Success("user", User([id |-> Str("u1")]))
      [] call.op = "getDocuments" ->
            Success("documents",
                Arr([i \in 1..Len(requestDocumentIds(call.args.documentIds)) |->
                        Document(requestDocumentIds(call.args.documentIds)[i])]))
      [] call.op = "login" ->
            Success("user", User([id |-> Str("u1"), access_token |-> Str("s.2")]))
      [] OTHER -> CHOOSE e \in Successes(call) : TRUE

PlainResults(call) ==
    CASE call.op = "getBlob" -> {Failure, Response(200, BlobBody)}
      [] call.op = "createBlobWithProgress" ->
            {[kind |-> "error"], [kind |-> "load", response |-> ErrorEnvelope],
             [kind |-> "load", response |-> PlainSuccess(call)]}
      [] call.op = "getBlobWithProgress" ->
            {[kind |-> "error"],
             [kind |-> "load", response |-> [type |-> "blob", body |-> BlobBody]]}
      [] call.op = "logout" ->
            Failures \cup {Response(502, NonJSON("<html>Bad Gateway</html>")),
                           Response(200, JSON(PlainSuccess(call)))}
      [] OTHER -> Failures \cup {Response(200, JSON(PlainSuccess(call)))}

-----------------------------------------------------------------------------
VARIABLES
    clients,    \* the TrueVaultClient objects alive, in order of construction
    made,       \* per client: the arguments it was constructed from
    lastNew,    \* the latest new TrueVaultClient(authn, host) and whether it threw
    calls,      \* the operations invoked, in order of invocation
    requests    \* the requests handed to the transport, in order

vars == <<clients, made, lastNew, calls, requests>>

NoNew == [authn |-> Undefined, host |-> Undefined, threw |-> FALSE, client |-> 0]

\* no client yet: the state the constructor is exercised from
InitNew ==
    /\ clients = <<>>
    /\ made = <<>>
    /\ lastNew = NoNew
    /\ calls = <<>>
    /\ requests = <<>>

\* one client, constructed from any accepted authentication object
Init ==
    \E authn \in ClientAuthn, host \in HostInputs :
        /\ ~constructor(authn, host).threw
        /\ clients = <<constructor(authn, host).this>>
        /\ made = <<[authn |-> authn, host |-> host]>>
        /\ lastNew = [authn |-> authn, host |-> host, threw |-> FALSE, client |-> 1]
        /\ calls = <<>>
        /\ requests = <<>>

\* new TrueVaultClient(authn, host) by the caller
Construct(authn, host) ==
    LET r == constructor(authn, host) IN
    /\ Len(clients) < MaxClients
    /\ IF r.threw
       THEN /\ lastNew' = [authn |-> authn, host |-> host, threw |-> TRUE, client |-> 0]
            /\ UNCHANGED <<clients, made>>
       ELSE /\ clients' = Append(clients, r.this)
            /\ made' = Append(made, [authn |-> authn, host |-> host])
            /\ lastNew' = [authn |-> authn, host |-> host, threw |-> FALSE,
                           client |-> Len(clients) + 1]
    /\ UNCHANGED <<calls, requests>>

-----------------------------------------------------------------------------
(* Invoking an operation: the synchronous part, up to the first await *)

NoArgs == [none |-> TRUE]

\* the operation's promise is created and its request handed to the transport
Issue(c, op, args, request) ==
    /\ calls' = Append(calls,
            [op |-> op, client |-> c, args |-> args,
             hdr |-> IF c = 0 THEN Null ELSE authHeader(clients[c]),
             stage |-> "sent", res |-> NoResult, events |-> <<>>, inner |-> Pending,
             outcome |-> Pending])
    /\ requests' = Append(requests, [call |-> Len(calls) + 1, request |-> request])
    /\ UNCHANGED <<clients, made, lastNew>>

CanInvoke(c) == Len(calls) < MaxCalls /\ c \in 1..Len(clients)

\* client.logout()
logout(c) ==
    /\ CanInvoke(c)
    /\ Issue(c, "logout", NoArgs,
             performLegacyRequest(clients[c], "v1/auth/logout", Options("POST", Undefined)))

\* client.readCurrentUser(full)
readCurrentUser(c, full) ==
    /\ CanInvoke(c)
    /\ Issue(c, "readCurrentUser", [full |-> full],
             performLegacyRequest(clients[c],
                "v1/auth/me?full=" \o (IF full = Bool(FALSE) THEN "false" ELSE "true"),
                NoOptions))

\* getDocuments without the early return for an empty list
getDocuments_AlwaysRequest(c, vaultId, documentIds) ==
    /\ CanInvoke(c)
    /\ Issue(c, "getDocuments", [vaultId |-> vaultId, documentIds |-> documentIds],
             performJSONRequest(clients[c],
                "v2/vaults/" \o vaultId \o "/documents/"
                    \o join(requestDocumentIds(documentIds)),
                NoOptions))

\* client.getDocuments(vaultId, documentIds)
getDocuments(c, vaultId, documentIds) ==
    /\ CanInvoke(c)
    /\ IF Len(documentIds) = 0
       THEN /\ calls' = Append(calls,
                    [op |-> "getDocuments", client |-> c,
                     args |-> [vaultId |-> vaultId, documentIds |-> documentIds],
                     hdr |-> authHeader(clients[c]),
                     stage |-> "done", res |-> NoResult, events |-> <<>>, inner |-> Pending,
                     outcome |-> Resolved(Arr(<<>>))])
            /\ UNCHANGED <<clients, made, lastNew, requests>>
       ELSE Issue(c, "getDocuments", [vaultId |-> vaultId, documentIds |-> documentIds],
                  performJSONRequest(clients[c],
                     "v2/vaults/" \o vaultId \o "/documents/"
                        \o join(requestDocumentIds(documentIds)),
                     NoOptions))

\* client.getBlob(vaultId, blobId)
getBlob(c, vaultId, blobId) ==
    /\ CanInvoke(c)
    /\ Issue(c, "getBlob", [vaultId |-> vaultId, blobId |-> blobId],
             [transport |-> "fetch",
              url |-> clients[c].host \o "/v1/vaults/" \o vaultId \o "/blobs/" \o blobId,
              method |-> "GET",
              headers |-> SetHeader(EmptyProps, "Authorization", authHeader(clients[c])),
              body |-> Undefined])

\* client.createBlobWithProgress(vaultId, file, progressCallback, ownerId)
createBlobWithProgress(c, vaultId, ownerId) ==
    /\ CanInvoke(c)
    /\ Issue(c, "createBlobWithProgress", [vaultId |-> vaultId, ownerId |-> ownerId],
             performLegacyRequestWithProgress(clients[c], "post",
                clients[c].host \o "/v1/vaults/" \o vaultId \o "/blobs",
                IF TypeOf(ownerId) = "string"
                THEN Obj([file |-> Str("FILE"), owner_id |-> ownerId])
                ELSE Obj([file |-> Str("FILE")]),
                "json"))

\* client.getBlobWithProgress(vaultId, blobId, progressCallback)
getBlobWithProgress(c, vaultId, blobId) ==
    /\ CanInvoke(c)
    /\ Issue(c, "getBlobWithProgress", [vaultId |-> vaultId, blobId |-> blobId],
             performLegacyRequestWithProgress(clients[c], "get",
                clients[c].host \o "/v1/vaults/" \o vaultId \o "/blobs/" \o blobId,
                Null, "blob"))

\* the clients that logins in flight may still construct
LoginsInFlight == Cardinality({i \in 1..Len(calls) : calls[i].op = "login" /\ calls[i].stage # "done"})

\* TrueVaultClient.login(accountId, username, password, mfaCode, host)
login(accountId, username, password, mfaCode, host) ==
    /\ Len(calls) < MaxCalls
    /\ Len(clients) + LoginsInFlight < MaxClients
    /\ Issue(0, "login",
             [accountId |-> accountId, username |-> username, password |-> password,
              mfaCode |-> mfaCode, host |-> host],
             performLegacyRequest(constructor(Null, host).this, "v1/auth/login",
                Options("POST",
                    IF Truthy(mfaCode)
                    THEN Obj([account_id |-> Str(accountId), username |-> Str(username),
                              password |-> Str(password), mfa_code |-> mfaCode])
                    ELSE Obj([account_id |-> Str(accountId), username |-> Str(username),
                              password |-> Str(password)]))))

\* TrueVaultClient.generateAccessToken(accountId, username, password, mfaCode,
\* host), called on its own: the request goes out from a temporary client
\* without a credential, which no one else holds
generateAccessToken(accountId, username, password, mfaCode, host) ==
    /\ Len(calls) < MaxCalls
    /\ Issue(0, "generateAccessToken",
             [accountId |-> accountId, username |-> username, password |-> password,
              mfaCode |-> mfaCode, host |-> host],
             performLegacyRequest(constructor(Null, host).this, "v1/auth/login",
                Options("POST",
                    IF Truthy(mfaCode)
                    THEN Obj([account_id |-> Str(accountId), username |-> Str(username),
                              password |-> Str(password), mfa_code |-> mfaCode])
                    ELSE Obj([account_id |-> Str(accountId), username |-> Str(username),
                              password |-> Str(password)]))))

\* the body of an async function threw before its first await: the promise
\* it returned is rejected and no request was made
Throw(c, op, args, error) ==
    /\ calls' = Append(calls,
            [op |-> op, client |-> c, args |-> args, hdr |-> authHeader(clients[c]),
             stage |-> "done", res |-> NoResult, events |-> <<>>, inner |-> Pending,
             outcome |-> Rejected(error)])
    /\ UNCHANGED <<clients, made, lastNew, requests>>

\* an operation whose form data holds one encoded field beside the fields given
IssueEncoded(c, op, args, path, method, fields, name, value) ==
    IF Encoded(value).threw
    THEN Throw(c, op, args, Encoded(value).error)
    ELSE Issue(c, op, args,
               performLegacyRequest(clients[c], path,
                    Options(method, SetProp(fields, name, Str(Encoded(value).value)))))

\* client.updateCurrentUser(attributes)
updateCurrentUser(c, attributes) ==
    /\ CanInvoke(c)
    /\ IssueEncoded(c, "updateCurrentUser", [attributes |-> attributes],
                    "v1/auth/me?full=true", "PUT", Obj(EmptyProps), "attributes", attributes)

\* client.createUser(username, password, attributes, groupIds, status)
createUser(c, username, password, attributes, groupIds, status) ==
    LET args == [username |-> username, password |-> password, attributes |-> attributes,
                 groupIds |-> groupIds, status |-> status]
        f0 == Obj([username |-> Str(username), password |-> Str(password)])
        f1 == IF Truthy(groupIds)
              THEN SetProp(f0, "group_ids",
                           Str(join([i \in 1..Len(groupIds.items) |-> groupIds.items[i].s])))
              ELSE f0
        f2 == IF Truthy(status) THEN SetProp(f1, "status", status) ELSE f1
    IN /\ CanInvoke(c)
       /\ IF Truthy(attributes)
          THEN IssueEncoded(c, "createUser", args, "v1/users", "POST", f2, "attributes", attributes)
          ELSE Issue(c, "createUser", args,
                     performLegacyRequest(clients[c], "v1/users", Options("POST", f2)))

\* client.updateUserAttributes(userId, attributes)
updateUserAttributes(c, userId, attributes) ==
    /\ CanInvoke(c)
    /\ IssueEncoded(c, "updateUserAttributes", [userId |-> userId, attributes |-> attributes],
                    "v1/users/" \o userId, "PUT", Obj(EmptyProps), "attributes", attributes)

\* client.createGroup(name, policy, userIds)
createGroup(c, name, policy, userIds) ==
    LET f0 == Obj([name |-> Str(name)])
        f1 == IF Truthy(userIds)
              THEN SetProp(f0, "user_ids",
                           Str(join([i \in 1..Len(userIds.items) |-> userIds.items[i].s])))
              ELSE f0
    IN /\ CanInvoke(c)
       /\ IssueEncoded(c, "createGroup", [name |-> name, policy |-> policy, userIds |-> userIds],
                       "v1/groups", "POST", f1, "policy", policy)

\* client.updateGroup(groupId, name, policy)
updateGroup(c, groupId, name, policy) ==
    LET args == [groupId |-> groupId, name |-> name, policy |-> policy]
        f0 == IF Truthy(name) THEN Obj([name |-> name]) ELSE Obj(EmptyProps)
    IN /\ CanInvoke(c)
       /\ IF Truthy(policy)
          THEN IssueEncoded(c, "updateGroup", args, "v1/groups/" \o groupId, "PUT", f0,
                            "policy", policy)
          ELSE Issue(c, "updateGroup", args,
                     performLegacyRequest(clients[c], "v1/groups/" \o groupId, Options("PUT", f0)))

\* const schemaDefinition = {name, fields}
schemaDefinition(name, fields) == Obj([name |-> Str(name), fields |-> fields])

\* client.createSchema(vaultId, name, fields)
createSchema(c, vaultId, name, fields) ==
    /\ CanInvoke(c)
    /\ IssueEncoded(c, "createSchema", [vaultId |-> vaultId, name |-> name, fields |-> fields],
                    "v1/vaults/" \o vaultId \o "/schemas", "POST", Obj(EmptyProps),
                    "schema", schemaDefinition(name, fields))

\* client.updateSchema(vaultId, schemaId, name, fields)
updateSchema(c, vaultId, schemaId, name, fields) ==
    /\ CanInvoke(c)
    /\ IssueEncoded(c, "updateSchema",
                    [vaultId |-> vaultId, schemaId |-> schemaId, name |-> name, fields |-> fields],
                    "v1/vaults/" \o vaultId \o "/schemas/" \o schemaId, "PUT", Obj(EmptyProps),
                    "schema", schemaDefinition(name, fields))

\* client.createUserSchema(accountId, name, fields)
createUserSchema(c, accountId, name, fields) ==
    /\ CanInvoke(c)
    /\ IssueEncoded(c, "createUserSchema",
                    [accountId |-> accountId, name |-> name, fields |-> fields],
                    "v1/accounts/" \o accountId \o "/user_schema", "POST", Obj(EmptyProps),
                    "schema", schemaDefinition(name, fields))

\* client.updateUserSchema(accountId, name, fields)
updateUserSchema(c, accountId, name, fields) ==
    /\ CanInvoke(c)
    /\ IssueEncoded(c, "updateUserSchema",
                    [accountId |-> accountId, name |-> name, fields |-> fields],
                    "v1/accounts/" \o accountId \o "/user_schema", "PUT", Obj(EmptyProps),
                    "schema", schemaDefinition(name, fields))

\* client.searchUsers(searchOption)
searchUsers(c, searchOption) ==
    /\ CanInvoke(c)
    /\ IssueEncoded(c, "searchUsers", [searchOption |-> searchOption],
                    "v1/users/search", "POST", Obj(EmptyProps), "search_option", searchOption)

\* client.searchDocuments(vaultId, searchOption)
searchDocuments(c, vaultId, searchOption) ==
    /\ CanInvoke(c)
    /\ IssueEncoded(c, "searchDocuments", [vaultId |-> vaultId, searchOption |-> searchOption],
                    "v1/vaults/" \o vaultId \o "/search", "POST", Obj(EmptyProps),
                    "search_option", searchOption)

\* client.createDocument(vaultId, schemaId, document, ownerId)
createDocument(c, vaultId, schemaId, document, ownerId) ==
    LET b0 == Obj([document |-> document])
        b1 == IF TypeOf(schemaId) = "string" THEN SetProp(b0, "schemaId", schemaId) ELSE b0
        body == IF TypeOf(ownerId) = "string" THEN SetProp(b1, "ownerId", ownerId) ELSE b1
    IN /\ CanInvoke(c)
       /\ Issue(c, "createDocument",
                [vaultId |-> vaultId, schemaId |-> schemaId, document |-> document,
                 ownerId |-> ownerId],
                performJSONRequest(clients[c], "v2/vaults/" \o vaultId \o "/documents",
                    Options("POST", JSON_stringify(body))))

\* client.updateDocument(vaultId, documentId, document, ownerId, schemaId)
updateDocument(c, vaultId, documentId, document, ownerId, schemaId) ==
    LET b0 == Obj([document |-> document])
        b1 == IF TypeOf(ownerId) = "string" THEN SetProp(b0, "owner_id", ownerId) ELSE b0
        body == IF TypeOf(schemaId) = "string" THEN SetProp(b1, "schema_id", schemaId) ELSE b1
    IN /\ CanInvoke(c)
       /\ Issue(c, "updateDocument",
                [vaultId |-> vaultId, documentId |-> documentId, document |-> document,
                 ownerId |-> ownerId, schemaId |-> schemaId],
                performJSONRequest(clients[c],
                    "v2/vaults/" \o vaultId \o "/documents/" \o documentId,
                    Options("PUT", JSON_stringify(body))))

\* client.readUsers(userIds)
readUsers(c, userIds) ==
    /\ CanInvoke(c)
    /\ Issue(c, "readUsers", [userIds |-> userIds],
             performLegacyRequest(clients[c], "v2/users/" \o join(userIds) \o "?full=true",
                NoOptions))

\* client.readUser(userId): readUsers([userId])
readUser(c, userId) ==
    /\ CanInvoke(c)
    /\ Issue(c, "readUser", [userId |-> userId],
             performLegacyRequest(clients[c], "v2/users/" \o join(<<userId>>) \o "?full=true",
                NoOptions))

\* client.updateBlobWithProgress(vaultId, blobId, file, progressCallback, ownerId)
updateBlobWithProgress(c, vaultId, blobId, ownerId) ==
    /\ CanInvoke(c)
    /\ Issue(c, "updateBlobWithProgress",
             [vaultId |-> vaultId, blobId |-> blobId, ownerId |-> ownerId],
             performLegacyRequestWithProgress(clients[c], "put",
                clients[c].host \o "/v1/vaults/" \o vaultId \o "/blobs/" \o blobId,
                IF TypeOf(ownerId) = "string"
                THEN Obj([file |-> Str("FILE"), owner_id |-> ownerId])
                ELSE Obj([file |-> Str("FILE")]),
                "json"))

\* the operations that build a request from their arguments in one statement
\* and return one part of the response, or nothing
SimpleOperations ==
    {"updateUserStatus", "updateUserUsername", "updateUserPassword", "deleteUser",
     "finalizeMfaEnrollment", "unenrollMfa", "deleteGroup", "readFullGroup", "addUsersToGroup",
     "removeUsersFromGroup", "createVault", "readVault", "updateVault", "deleteVault",
     "readSchema", "deleteSchema", "deleteDocument", "createBlob", "updateBlob",
     "updateBlobOwner", "deleteBlob", "sendPasswordResetEmail"}

\* the form data of createBlob / updateBlob
blobFormData(ownerId) ==
    IF TypeOf(ownerId) = "string"
    THEN Obj([file |-> Str("FILE"), owner_id |-> ownerId])
    ELSE Obj([file |-> Str("FILE")])

\* the request of each of these operations; a holds the operation's arguments
SimpleRequest(this, op, a) ==
    CASE op = "updateUserStatus" ->
            performLegacyRequest(this, "v1/users/" \o a.userId,
                Options("PUT", Obj([status |-> Str(a.status)])))
      [] op = "updateUserUsername" ->
            performLegacyRequest(this, "v1/users/" \o a.userId,
                Options("PUT", Obj([username |-> Str(a.username)])))
      [] op = "updateUserPassword" ->
            performLegacyRequest(this, "v1/users/" \o a.userId,
                Options("PUT", Obj([password |-> Str(a.password)])))
      [] op = "deleteUser" ->
            performLegacyRequest(this, "v1/users/" \o a.userId, Options("DELETE", Undefined))
      [] op = "finalizeMfaEnrollment" ->
            performJSONRequest(this, "v1/users/" \o a.userId \o "/mfa/finalize_enrollment",
                Options("POST", JSON_stringify(Obj([mfa_code_1 |-> Str(a.mfaCode1),
                                                    mfa_code_2 |-> Str(a.mfaCode2)]))))
      [] op = "unenrollMfa" ->
            performJSONRequest(this, "v1/users/" \o a.userId \o "/mfa/unenroll",
                Options("POST", JSON_stringify(Obj([mfa_code |-> Str(a.mfaCode1),
                                                    password |-> Str(a.password)]))))
      [] op = "deleteGroup" ->
            performLegacyRequest(this, "v1/groups/" \o a.groupId, Options("DELETE", Undefined))
      [] op = "readFullGroup" ->
            performLegacyRequest(this, "v1/groups/" \o a.groupId \o "?full=true", NoOptions)
      [] op = "addUsersToGroup" ->
            performJSONRequest(this, "v1/groups/" \o a.groupId \o "/membership",
                Options("POST", JSON_stringify(Obj([user_ids |->
                    Arr([n \in 1..Len(a.userIds) |-> Str(a.userIds[n])])]))))
      [] op = "removeUsersFromGroup" ->
            performJSONRequest(this, "v1/groups/" \o a.groupId \o "/membership/" \o join(a.userIds),
                Options("DELETE", Undefined))
      [] op = "createVault" ->
            performLegacyRequest(this, "v1/vaults", Options("POST", Obj([name |-> Str(a.name)])))
      [] op = "readVault" -> performLegacyRequest(this, "v1/vaults/" \o a.vaultId, NoOptions)
      [] op = "updateVault" ->
            performLegacyRequest(this, "v1/vaults/" \o a.vaultId,
                Options("PUT", Obj([name |-> Str(a.name)])))
      [] op = "deleteVault" ->
            performLegacyRequest(this, "v1/vaults/" \o a.vaultId, Options("DELETE", Undefined))
      [] op = "readSchema" ->
            performLegacyRequest(this, "v1/vaults/" \o a.vaultId \o "/schemas/" \o a.schemaId,
                NoOptions)
      [] op = "deleteSchema" ->
            performLegacyRequest(this, "v1/vaults/" \o a.vaultId \o "/schemas/" \o a.schemaId,
                Options("DELETE", Undefined))
      [] op = "deleteDocument" ->
            performLegacyRequest(this, "v1/vaults/" \o a.vaultId \o "/documents/" \o a.documentId,
                Options("DELETE", Undefined))
      [] op = "createBlob" ->
            performLegacyRequest(this, "v1/vaults/" \o a.vaultId \o "/blobs",
                Options("POST", blobFormData(a.ownerId)))
      [] op = "updateBlob" ->
            performLegacyRequest(this, "v1/vaults/" \o a.vaultId \o "/blobs/" \o a.blobId,
                Options("PUT", blobFormData(a.ownerId)))
      [] op = "updateBlobOwner" ->
            performLegacyRequest(this,
                "v1/vaults/" \o a.vaultId \o "/blobs/" \o a.blobId \o "/owner",
                Options("PUT", Obj([owner_id |-> a.ownerId])))
      [] op = "deleteBlob" ->
            performLegacyRequest(this, "v1/vaults/" \o a.vaultId \o "/blobs/" \o a.blobId,
                Options("DELETE", Undefined))
      [] op = "sendPasswordResetEmail" ->
            performJSONRequest(this, "v1/password_reset_flows/" \o a.flowId \o "/email",
                Options("POST", JSON_stringify(Obj([username |-> Str(a.username)]))))

\* client.<op>(...) for an operation of SimpleOperations
invoke(c, op, a) ==
    /\ CanInvoke(c)
    /\ op \in SimpleOperations
    /\ Issue(c, op, a, SimpleRequest(clients[c], op, a))

\* client.performLegacyRequest(path, options) or, with json, client.performJSONRequest(path,
\* options), called by the user of the client with options of their own
callPrimitive(c, json, options) ==
    /\ CanInvoke(c)
    /\ Issue(c, IF json THEN "performJSONRequest" ELSE "performLegacyRequest",
             [options |-> options],
             IF json THEN performJSONRequest(clients[c], "v1/vaults", options)
             ELSE performLegacyRequest(clients[c], "v1/vaults", options))

-----------------------------------------------------------------------------
(* The transport settles a request *)

\* the request of a call
RequestOf(i) == requests[CHOOSE r \in 1..Len(requests) : requests[r].call = i].request

\* the progress callback registered on the XMLHttpRequest whatever the method
Listeners_XhrOnly(method, target, type) ==
    CASE target = "xhr" /\ type = "progress" -> <<"progressCallback">>
      [] target = "xhr" /\ type = "load" -> <<"progressCallback", "onload">>
      [] target = "xhr" /\ type = "error" -> <<"onerror">>
      [] OTHER -> <<>>

\* the listeners performLegacyRequestWithProgress has registered for an
\* event of a target (the XMLHttpRequest or its upload), in the order of
\* their registration, which is the order of their invocation
Listeners(method, target, type) ==
    CASE target = "xhr" /\ type = "progress" ->
            IF method = "get" THEN <<"progressCallback">> ELSE <<>>
      [] target = "xhr" /\ type = "load" ->
            IF method = "get" THEN <<"progressCallback", "onload">> ELSE <<"onload">>
      [] target = "xhr" /\ type = "error" -> <<"onerror">>
      [] target = "upload" /\ type \in {"progress", "load"} ->
            IF method = "get" THEN <<>> ELSE <<"progressCallback">>
      [] OTHER -> <<>>

\* an event dispatched to the listeners of a request: whether the progress
\* callback was among them, and whether the promise was settled before it ran
Dispatched(request, target, type) ==
    IF request.transport # "xhr" THEN <<>>
    ELSE LET listeners == Listeners(request.method, target, type) IN
         <<[target |-> target, type |-> type,
            called |-> \E p \in 1..Len(listeners) : listeners[p] = "progressCallback",
            settled |-> \E p, q \in 1..Len(listeners) :
                            /\ listeners[p] = "progressCallback" /\ q < p
                            /\ listeners[q] \in {"onload", "onerror"}]>>

\* the events of the kind the call has seen
EventsSeen(i, target, type) ==
    {n \in 1..Len(calls[i].events) :
        calls[i].events[n].target = target /\ calls[i].events[n].type = type}

\* the transport sends the body of a request before it delivers the response
Uploaded(i) == RequestOf(i).method = "get" \/ EventsSeen(i, "upload", "load") # {}

MaxProgress == 1

\* a progress event of the upload or of the download, or the load event that
\* ends the upload
Dispatch(i, target, type) ==
    /\ i \in 1..Len(calls)
    /\ calls[i].stage = "sent"
    /\ RequestOf(i).transport = "xhr"
    /\ \/ target = "upload" /\ type \in {"progress", "load"} /\ ~Uploaded(i)
       \/ target = "xhr" /\ type = "progress" /\ Uploaded(i)
    /\ type = "progress" => Cardinality(EventsSeen(i, target, type)) < MaxProgress
    /\ calls' = [calls EXCEPT ![i].events = @ \o Dispatched(RequestOf(i), target, type)]
    /\ UNCHANGED <<clients, made, lastNew, requests>>

\* the response, or the failure, of a request: for an XMLHttpRequest its
\* load or error event, which ends the transfer; the load event of the
\* upload precedes the load event of the response
Respond(i, res) ==
    /\ i \in 1..Len(calls)
    /\ calls[i].stage = "sent"
    /\ res \in Results(calls[i])
    /\ calls' = [calls EXCEPT ![i].stage = "received", ![i].res = res,
                              ![i].events =
                                    @ \o (IF res.kind = "load" /\ ~Uploaded(i)
                                          THEN Dispatched(RequestOf(i), "upload", "load")
                                          ELSE <<>>)
                                      \o Dispatched(RequestOf(i), "xhr", res.kind)]
    /\ UNCHANGED <<clients, made, lastNew, requests>>

-----------------------------------------------------------------------------
(* Resuming an operation after its await *)

Resumes(i, op) == i \in 1..Len(calls) /\ calls[i].op = op /\ calls[i].stage = "received"

\* inner: the settled promise of the request primitive; outcome: the operation's own
Finish(i, inner, outcome) ==
    calls' = [calls EXCEPT ![i].stage = "done", ![i].inner = inner, ![i].outcome = outcome]

\* a logout that also puts the host back to the default
logout_resume_ResetsHost(i) ==
    /\ Resumes(i, "logout")
    /\ LET r == performLegacyRequest_then(calls[i].res) IN
        /\ clients' = IF r.status = "resolved"
                      THEN [clients EXCEPT ![calls[i].client]._authHeader = Null,
                                           ![calls[i].client].host = constructor(Null, Undefined).this.host]
                      ELSE clients
        /\ Finish(i, r, logout_then(r))
    /\ UNCHANGED <<made, lastNew, requests>>

\* a logout that drops the credential before it knows the outcome
logout_resume_ClearsFirst(i) ==
    /\ Resumes(i, "logout")
    /\ LET r == performLegacyRequest_then(calls[i].res) IN
        /\ clients' = [clients EXCEPT ![calls[i].client]._authHeader = Null]
        /\ Finish(i, r, logout_then(r))
    /\ UNCHANGED <<made, lastNew, requests>>

logout_resume(i) ==
    /\ Resumes(i, "logout")
    /\ LET r == performLegacyRequest_then(calls[i].res) IN
        /\ clients' = IF r.status = "resolved"
                      THEN [clients EXCEPT ![calls[i].client]._authHeader = Null]
                      ELSE clients
        /\ Finish(i, r, logout_then(r))
    /\ UNCHANGED <<made, lastNew, requests>>

\* the response of the latest call answered taken for the call's own
readCurrentUser_resume_LatestResponse(i) ==
    /\ Resumes(i, "readCurrentUser")
    /\ LET answered == {n \in 1..Len(calls) :
                            calls[n].stage = "received" /\ calls[n].res.kind \in {"failure", "response"}}
           k == CHOOSE n \in answered : \A m \in answered : m <= n
           r == performLegacyRequest_then(calls[k].res)
       IN Finish(i, r, readCurrentUser_then(r))
    /\ UNCHANGED <<clients, made, lastNew, requests>>

readCurrentUser_resume(i) ==
    /\ Resumes(i, "readCurrentUser")
    /\ LET r == performLegacyRequest_then(calls[i].res) IN Finish(i, r, readCurrentUser_then(r))
    /\ UNCHANGED <<clients, made, lastNew, requests>>

getDocuments_resume(i) ==
    /\ Resumes(i, "getDocuments")
    /\ LET r == performLegacyRequest_then(calls[i].res) IN Finish(i, r, getDocuments_then(r))
    /\ UNCHANGED <<clients, made, lastNew, requests>>

getBlob_resume(i) ==
    /\ Resumes(i, "getBlob")
    /\ Finish(i, calls[i].inner, getBlob_then(calls[i].res))
    /\ UNCHANGED <<clients, made, lastNew, requests>>

createBlobWithProgress_resume(i) ==
    /\ Resumes(i, "createBlobWithProgress")
    /\ LET r == performLegacyRequestWithProgress_then("json", calls[i].res)
       IN Finish(i, r, createBlobWithProgress_then(r))
    /\ UNCHANGED <<clients, made, lastNew, requests>>

getBlobWithProgress_resume(i) ==
    /\ Resumes(i, "getBlobWithProgress")
    /\ LET r == performLegacyRequestWithProgress_then("blob", calls[i].res)
       IN Finish(i, r, getBlobWithProgress_then(r))
    /\ UNCHANGED <<clients, made, lastNew, requests>>

\* login: the token of generateAccessToken, then new TrueVaultClient({accessToken}, host)
login_resume(i) ==
    /\ Resumes(i, "login")
    /\ LET r == performLegacyRequest_then(calls[i].res)
           token == generateAccessToken_then(r)
           authn == Obj(Prop("accessToken", token.value))
           host == calls[i].args.host
       IN IF token.status # "resolved"
          THEN Finish(i, r, token) /\ UNCHANGED <<clients, made, lastNew>>
          ELSE IF constructor(authn, host).threw
          THEN /\ Finish(i, r, Rejected(constructor(authn, host).error))
               /\ lastNew' = [authn |-> authn, host |-> host, threw |-> TRUE, client |-> 0]
               /\ UNCHANGED <<clients, made>>
          ELSE /\ Finish(i, r, Resolved([type |-> "client", ref |-> Len(clients) + 1]))
               /\ clients' = Append(clients, constructor(authn, host).this)
               /\ made' = Append(made, [authn |-> authn, host |-> host])
               /\ lastNew' = [authn |-> authn, host |-> host, threw |-> FALSE,
                              client |-> Len(clients) + 1]
    /\ UNCHANGED requests

\* what an operation returns once its request has settled with r
Continuation(op, r) ==
    CASE op = "updateCurrentUser" -> updateCurrentUser_then(r)
      [] op \in {"createUser", "updateUserAttributes"} -> ReturnField(r, "user")
      [] op \in {"createGroup", "updateGroup"} -> ReturnField(r, "group")
      [] op \in {"createSchema", "updateSchema"} -> ReturnField(r, "schema")
      [] op \in {"createUserSchema", "updateUserSchema"} -> ReturnField(r, "user_schema")
      [] op \in {"createDocument", "updateDocument"} -> ReturnField(r, "document")
      [] op = "searchUsers" -> searchResult(r, "attributes")
      [] op = "searchDocuments" -> searchResult(r, "document")
      [] op = "readUsers" -> ReturnField(r, "users")
      [] op = "readUser" -> readUser_then(r)
      [] op \in {"performLegacyRequest", "performJSONRequest"} -> r
      [] op = "generateAccessToken" -> generateAccessToken_then(r)
      [] op \in {"updateUserStatus", "updateUserUsername", "updateUserPassword", "deleteUser"} ->
            ReturnField(r, "user")
      [] op \in {"deleteGroup", "readFullGroup"} -> ReturnField(r, "group")
      [] op \in {"createVault", "readVault", "updateVault", "deleteVault"} -> ReturnField(r, "vault")
      [] op = "readSchema" -> ReturnField(r, "schema")
      [] op \in {"createBlob", "updateBlob", "updateBlobOwner", "deleteBlob"} -> ReturnField(r, "blob")
      [] op = "deleteDocument" -> deleteDocument_then(r)
      [] op \in {"finalizeMfaEnrollment", "unenrollMfa", "addUsersToGroup", "removeUsersFromGroup",
                 "deleteSchema", "sendPasswordResetEmail"} -> ReturnNothing(r)

\* an operation of the table above resumes after its await
Continue(i) ==
    /\ i \in 1..Len(calls) /\ calls[i].stage = "received"
    /\ calls[i].op \in {"updateCurrentUser", "createUser", "updateUserAttributes", "createGroup",
                        "updateGroup", "createSchema", "updateSchema", "createUserSchema",
                        "updateUserSchema", "createDocument", "updateDocument", "searchUsers",
                        "searchDocuments", "readUsers", "readUser"} \cup SimpleOperations
                        \cup {"performLegacyRequest", "performJSONRequest", "generateAccessToken"}
    /\ LET r == performLegacyRequest_then(calls[i].res)
       IN Finish(i, r, Continuation(calls[i].op, r))
    /\ UNCHANGED <<clients, made, lastNew, requests>>

updateBlobWithProgress_resume(i) ==
    /\ Resumes(i, "updateBlobWithProgress")
    /\ LET r == performLegacyRequestWithProgress_then("json", calls[i].res)
       IN Finish(i, r, createBlobWithProgress_then(r))
    /\ UNCHANGED <<clients, made, lastNew, requests>>

-----------------------------------------------------------------------------
(* Specifications *)

VaultIds == {"v1"}
BlobIds == {"b1"}
FullInputs == {Undefined, Bool(FALSE)}
OwnerIds == {Undefined, Str("u1")}
LoginInputs ==
    {[mfaCode |-> Undefined, host |-> Undefined],
     [mfaCode |-> Str("123456"), host |-> Str("https://tv.test")]}

Resume ==
    \E i \in 1..MaxCalls :
        \/ logout_resume(i)
        \/ readCurrentUser_resume(i)
        \/ getDocuments_resume(i)
        \/ getBlob_resume(i)
        \/ createBlobWithProgress_resume(i)
        \/ getBlobWithProgress_resume(i)
        \/ login_resume(i)

\* Spec: calls of one caller interleaving on shared clients, each operation
\* with one argument list and the results that tell its outcomes apart
Invoke ==
    \/ \E c \in 1..MaxClients :
        \/ logout(c)
        \/ readCurrentUser(c, Undefined)
        \/ \E ids \in {l \in IdLists : Len(l) <= 1} : getDocuments(c, "v1", ids)
        \/ getBlob(c, "v1", "b1")
        \/ createBlobWithProgress(c, "v1", Undefined)
        \/ getBlobWithProgress(c, "v1", "b1")
    \/ login("acct", "user", "pw", Undefined, Undefined)

Next ==
    \/ Invoke
    \/ \E i \in 1..Len(calls) :
        calls[i].stage = "sent" /\ \E res \in PlainResults(calls[i]) : Respond(i, res)
    \/ Resume

Spec == Init /\ [][Next]_vars

\* SpecCall: one call of any operation, with every argument list and every
\* result of the transport
InvokeAny ==
    \/ \E c \in 1..MaxClients :
        \/ logout(c)
        \/ \E full \in FullInputs : readCurrentUser(c, full)
        \/ \E v \in VaultIds, ids \in IdLists : getDocuments(c, v, ids)
        \/ \E v \in VaultIds, b \in BlobIds : getBlob(c, v, b)
        \/ \E v \in VaultIds, o \in OwnerIds : createBlobWithProgress(c, v, o)
        \/ \E v \in VaultIds, b \in BlobIds : getBlobWithProgress(c, v, b)
    \/ \E in \in LoginInputs : login("acct", "user", "pw", in.mfaCode, in.host)

\* the operations that only SpecCall invokes
InvokeMore ==
    \E c \in 1..MaxClients :
        \/ \E a \in AttributeInputs \cup {Null} : updateCurrentUser(c, a)
        \/ \E a \in FieldInputs \cup {Undefined},
              g \in {Undefined, Arr(<<Str("g1"), Str("g2")>>)},
              st \in {Undefined, Str("PENDING")} :
                createUser(c, "user", "pw", a, g, st)
        \/ \E a \in FieldInputs : updateUserAttributes(c, "u1", a)
        \/ \E policy \in FieldInputs, u \in {Undefined, Arr(<<Str("u1"), Str("u2")>>)} :
                createGroup(c, "group", Arr(<<policy>>), u)
        \/ \E name \in {Undefined, Str("group")}, policy \in FieldInputs \cup {Undefined} :
                updateGroup(c, "g1", name, IF policy = Undefined THEN policy ELSE Arr(<<policy>>))
        \/ \E v \in VaultIds, fields \in FieldInputs : createSchema(c, v, "schema", Arr(<<fields>>))
        \/ \E v \in VaultIds, fields \in FieldInputs :
                updateSchema(c, v, "s1", "schema", Arr(<<fields>>))
        \/ \E fields \in FieldInputs : createUserSchema(c, "acct", "schema", Arr(<<fields>>))
        \/ \E fields \in FieldInputs : updateUserSchema(c, "acct", "schema", Arr(<<fields>>))
        \/ \E o \in FieldInputs : searchUsers(c, o)
        \/ \E v \in VaultIds, o \in FieldInputs : searchDocuments(c, v, o)
        \/ \E v \in VaultIds, sc \in {Undefined, Null, Str("s1")}, d \in FieldInputs,
              o \in {Undefined, Null, Str("u1")} :
                createDocument(c, v, sc, d, o)
        \/ \E v \in VaultIds, d \in FieldInputs, o \in {Undefined, Null, Str("u1")},
              sc \in {Undefined, Null, Str("s1")} :
                updateDocument(c, v, "d1", d, o, sc)
        \/ \E ids \in {<<"u1">>, <<"u2", "u1">>} : readUsers(c, ids)
        \/ readUser(c, "u1")
        \/ \E v \in VaultIds, b \in BlobIds, o \in OwnerIds : updateBlobWithProgress(c, v, b, o)

\* the arguments of the operations of SimpleOperations
SimpleArgs ==
    {[userId |-> "u1", groupId |-> "g1", vaultId |-> "v1", schemaId |-> "s1", blobId |-> "b1",
      documentId |-> "d1", flowId |-> "f1", name |-> "vault", status |-> "ACTIVATED",
      username |-> "user", password |-> "pw", mfaCode1 |-> "123456", mfaCode2 |-> "654321",
      userIds |-> ids, ownerId |-> o] : ids \in {<<"u1">>, <<"u2", "u1">>}, o \in OwnerIds}

\* the options a caller passes to the primitives: none, or headers of their own
CallerOptions ==
    {NoOptions,
     [NoOptions EXCEPT !.headers = Prop("Authorization", Str("Basic abc"))],
     [NoOptions EXCEPT !.headers = Prop("Accept", Str("application/json"))]}

NextCall ==
    \/ calls = <<>> /\ (InvokeAny \/ InvokeMore)
    \/ calls = <<>> /\ \E c \in 1..MaxClients, json \in BOOLEAN, options \in CallerOptions :
                            callPrimitive(c, json, options)
    \/ calls = <<>> /\ \E c \in 1..MaxClients, op \in SimpleOperations, a \in SimpleArgs :
                            invoke(c, op, a)
    \/ calls = <<>> /\ \E in \in LoginInputs :
                            generateAccessToken("acct", "user", "pw", in.mfaCode, in.host)
    \/ \E i \in 1..Len(calls) :
        calls[i].stage = "sent" /\ \E res \in Results(calls[i]) : Respond(i, res)
    \/ \E i \in 1..MaxCalls, target \in {"upload", "xhr"}, type \in {"progress", "load"} :
            Dispatch(i, target, type)
    \/ Resume
    \/ \E i \in 1..MaxCalls : Continue(i) \/ updateBlobWithProgress_resume(i)

SpecCall == Init /\ [][NextCall]_vars

\* SpecNew: the constructor alone
NextNew == \E authn \in AuthnInputs, host \in HostInputs : Construct(authn, host)

SpecNew == InitNew /\ [][NextNew]_vars

-----------------------------------------------------------------------------
(* Properties *)

\* base64 of a credential followed by a colon, as the API documents it
BasicOf(credential) == "Basic " \o base64_encode(credential \o ":")

\* C1: a client constructed from {apiKey: k}, {accessToken: t} or
\* {httpBasic: h} has authHeader 'Basic ' + base64(k + ':'),
\* 'Basic ' + base64(t + ':') and 'Basic ' + h respectively, and a client
\* constructed from null or from nothing has authHeader null.
C1_AuthHeaderDerivation ==
    \A i \in 1..Len(clients) :
        LET authn == made[i].authn
            header == authHeader(clients[i])
        IN /\ HasOwn(authn, "apiKey") => header = Str(BasicOf(Get(authn, "apiKey").s))
           /\ HasOwn(authn, "accessToken") => header = Str(BasicOf(Get(authn, "accessToken").s))
           /\ HasOwn(authn, "httpBasic") => header = Str("Basic " \o Get(authn, "httpBasic").s)
           /\ authn \in {Null, Undefined} => header = Null

\* an API-key client and an access-token client, with the headers computed by hand
C1_Witness ==
    /\ Len(clients) = 2
    /\ made[1].authn = Obj(Prop("apiKey", Str("k")))
    /\ authHeader(clients[1]) = Str("Basic azo=")
    /\ made[2].authn = Obj(Prop("accessToken", Str("t.1")))
    /\ authHeader(clients[2]) = Str("Basic dC4xOg==")

\* the call's request was answered with JSON text denoting an object
HasEnvelope(call) ==
    call.res.kind = "response" /\ call.res.body.isJSON /\ call.res.body.value.type = "object"

Envelope(call) == call.res.body.value

Done(i, op) == calls[i].op = op /\ calls[i].stage = "done"

LoggedOut(c) ==
    \E i \in 1..Len(calls) :
        Done(i, "logout") /\ calls[i].client = c /\ calls[i].outcome.status = "resolved"

\* the requests this step hands to the transport for calls on the client
NewRequests(c) ==
    {requests'[r].request : r \in {n \in Len(requests) + 1..Len(requests') :
                                        calls'[requests'[n].call].client = c}}

\* C3: once logout() has resolved on a client its authHeader is null, and
\* no request issued from then on by an operation of that client carries
\* an Authorization header.
C3_NoHeaderAfterLogout ==
    [][\A c \in 1..Len(clients) :
          LoggedOut(c) =>
              /\ authHeader(clients[c]) = Null
              /\ \A request \in NewRequests(c) : "Authorization" \notin DOMAIN request.headers]_vars

\* C4: the credential changes only in the step that resumes logout() after
\* its response was received; every request carries the Authorization
\* header the client held when the operation was invoked; and no step
\* changes or removes a request already issued.
C4_HeaderIsCredentialAtInvocation ==
    [][/\ \A c \in 1..Len(clients) :
            authHeader(clients'[c]) # authHeader(clients[c]) =>
                \E i \in 1..Len(calls) :
                    /\ calls[i].op = "logout" /\ calls[i].client = c
                    /\ calls[i].stage = "received" /\ calls[i].res.kind = "response"
                    /\ calls'[i].stage = "done"
        /\ \A n \in 1..Len(requests) : requests'[n] = requests[n]
        /\ \A r \in 1..Len(requests') :
            Truthy(calls'[requests'[r].call].hdr) =>
                /\ "Authorization" \in DOMAIN requests'[r].request.headers
                /\ requests'[r].request.headers["Authorization"] = calls'[requests'[r].call].hdr]_vars

\* logout has cleared the credential while an earlier call of the client is
\* still in flight, its request holding the header of the old credential
C4_Witness ==
    \E i, j \in 1..Len(calls) :
        /\ Done(j, "logout") /\ calls[j].client = calls[i].client
        /\ authHeader(clients[calls[j].client]) = Null
        /\ calls[i].stage = "sent" /\ calls[i].op = "readCurrentUser"
        /\ calls[i].hdr = Str("Basic azo=")
        /\ \E r \in 1..Len(requests) :
            /\ requests[r].call = i
            /\ requests[r].request.headers["Authorization"] = Str("Basic azo=")

\* the operations dispatched through performLegacyRequest / performJSONRequest
ThroughPrimitive(call) == call.op \in {"logout", "readCurrentUser", "getDocuments", "login"}

C6_NonJSONRejects ==
    \A i \in 1..Len(calls) :
        (calls[i].stage = "done" /\ ThroughPrimitive(calls[i])
            /\ calls[i].res.kind = "response" /\ ~calls[i].res.body.isJSON) =>
                calls[i].outcome = Rejected(Error("non-JSON response: " \o calls[i].res.body.text))

\* an HTML error page has been turned into the error that quotes it
C6_Witness ==
    \E i \in 1..Len(calls) :
        /\ Done(i, "getDocuments")
        /\ calls[i].res = Response(502, NonJSON("<html>Bad Gateway</html>"))
        /\ calls[i].outcome.status = "rejected"
        /\ calls[i].outcome.error.message = "non-JSON response: <html>Bad Gateway</html>"

\* the requests issued for a call
RequestsOf(i) == {r \in 1..Len(requests) : requests[r].call = i}

\* C7: getDocuments(vaultId, []) resolves with [] and issues no request,
\* whatever the state of the client.
C7_EmptyIdsNoRequest ==
    \A i \in 1..Len(calls) :
        (calls[i].op = "getDocuments" /\ Len(calls[i].args.documentIds) = 0) =>
            /\ calls[i].outcome = Resolved(Arr(<<>>))
            /\ RequestsOf(i) = {}

\* getDocuments(vaultId, []) on a client that has logged out
C7_Witness ==
    \E i \in 1..Len(calls) :
        /\ Done(i, "getDocuments") /\ calls[i].args.documentIds = <<>>
        /\ LoggedOut(calls[i].client)
        /\ calls[i].outcome = Resolved(Arr(<<>>))
        /\ Len(requests) = 1 /\ requests[1].call # i

\* the URL of the multiget request for the ids
DocumentsUrl(call, ids) ==
    clients[call.client].host \o "/v2/vaults/" \o call.args.vaultId \o "/documents/"
        \o join(ids) \o "?_tv_sdk=" \o version

\* the call's response is a success envelope
Succeeded(call) == HasEnvelope(call) /\ Get(Envelope(call), "result") = Str("success")

\* C8: getDocuments(vaultId, [id]) issues exactly one request, for the ids
\* [id, id], and resolves with a list of exactly one element, the first
\* result of the response.
C8_SingleIdOneResult ==
    \A i \in 1..Len(calls) :
        (calls[i].op = "getDocuments" /\ Len(calls[i].args.documentIds) = 1) =>
            LET id == calls[i].args.documentIds[1] IN
            /\ Cardinality(RequestsOf(i)) = 1
            /\ \A r \in RequestsOf(i) :
                requests[r].request.url = DocumentsUrl(calls[i], <<id, id>>)
            /\ (calls[i].stage = "done" /\ Succeeded(calls[i])) =>
                calls[i].outcome =
                    Resolved(Arr(<<Get(Envelope(calls[i]), "documents").items[1]>>))

\* C9: getDocuments(vaultId, ids) with two or more ids issues exactly one
\* request, for the ids as given, and resolves with the results of the
\* response as the server ordered them.
C9_ManyIdsAsGiven ==
    \A i \in 1..Len(calls) :
        (calls[i].op = "getDocuments" /\ Len(calls[i].args.documentIds) >= 2) =>
            /\ Cardinality(RequestsOf(i)) = 1
            /\ \A r \in RequestsOf(i) :
                requests[r].request.url = DocumentsUrl(calls[i], calls[i].args.documentIds)
            /\ (calls[i].stage = "done" /\ Succeeded(calls[i])) =>
                calls[i].outcome = Resolved(Get(Envelope(calls[i]), "documents"))

\* two ids requested in the caller's order, two results in the server's
C9_Witness ==
    \E i \in 1..Len(calls) :
        /\ Done(i, "getDocuments") /\ calls[i].args.documentIds = <<"d1", "d2">>
        /\ requests[1].request.url
            = "https://api.truevault.com/v2/vaults/v1/documents/d1,d2?_tv_sdk=1.3.1"
        /\ Succeeded(calls[i])
        /\ calls[i].outcome = Resolved(Arr(<<Document("d2"), Document("d1")>>))

\* readCurrentUser has read a user whose attributes the server holds as null
ReadNullAttributes(i) ==
    /\ Done(i, "readCurrentUser") /\ Succeeded(calls[i])
    /\ HasOwn(Get(Envelope(calls[i]), "user"), "attributes")
    /\ Get(Get(Envelope(calls[i]), "user"), "attributes") = Null

\* C10 as stated: readCurrentUser resolves with a user whose attributes is
\* {} whenever the server's user.attributes is null.
C10_NullAttributesBecomeEmpty ==
    \A i \in 1..Len(calls) :
        ReadNullAttributes(i) =>
            /\ calls[i].outcome.status = "resolved"
            /\ Get(calls[i].outcome.value, "attributes") = Obj(EmptyProps)

\* C10 as amended: readCurrentUser resolves with the server's user as it
\* is, attributes null, whenever the server's user.attributes is null.
C10_NullAttributesStayNull ==
    \A i \in 1..Len(calls) :
        ReadNullAttributes(i) =>
            /\ calls[i].outcome = Resolved(Get(Envelope(calls[i]), "user"))
            /\ HasOwn(calls[i].outcome.value, "attributes")
            /\ Get(calls[i].outcome.value, "attributes") = Null

\* a user with null attributes has been read
C10_Witness ==
    \E i \in 1..Len(calls) :
        /\ ReadNullAttributes(i)
        /\ calls[i].outcome = Resolved(User([id |-> Str("u1"), attributes |-> Null]))

\* readCurrentUser has read a user that has no attributes key in the response
ReadAbsentAttributes(i) ==
    /\ Done(i, "readCurrentUser") /\ Succeeded(calls[i])
    /\ Get(Envelope(calls[i]), "user").type = "object"
    /\ ~HasOwn(Get(Envelope(calls[i]), "user"), "attributes")

\* C11: readCurrentUser resolves, with a user whose attributes is
\* undefined, whenever the server's user has no attributes key; the result
\* differs from a user with attributes {} and from what the same user with
\* null attributes is read as.
C11_AbsentAttributesUndefined ==
    \A i \in 1..Len(calls) :
        ReadAbsentAttributes(i) =>
            LET user == Get(Envelope(calls[i]), "user") IN
            /\ calls[i].outcome.status = "resolved"
            /\ calls[i].outcome.value.type = "object"
            /\ Get(calls[i].outcome.value, "attributes") = Undefined
            /\ calls[i].outcome # Resolved(SetProp(user, "attributes", Obj(EmptyProps)))
            /\ calls[i].outcome
                # readCurrentUser_then(Resolved(Success("user", SetProp(user, "attributes", Null))))

\* readCurrentUser(false) has read a user without attributes
C11_Witness ==
    \E i \in 1..Len(calls) :
        /\ ReadAbsentAttributes(i) /\ calls[i].args.full = Bool(FALSE)
        /\ calls[i].outcome = Resolved(User([id |-> Str("u1")]))

\* the call passes an object as user attributes
SendsAttributes(call) ==
    /\ call.op \in {"updateCurrentUser", "createUser", "updateUserAttributes"}
    /\ call.args.attributes.type = "object"

\* C12: for every object attrs passed as user attributes, the text sent as
\* the attributes field decodes (base64-decode, then JSON-parse) to attrs,
\* and updateCurrentUser, answered with the text it sent, resolves with a
\* user whose attributes is attrs.
C12_RoundTrip ==
    \A i \in 1..Len(calls) :
        SendsAttributes(calls[i]) =>
            /\ \E r \in RequestsOf(i) :
                Decoded(ToStr(Get(requests[r].request.body, "attributes")))
                    = [threw |-> FALSE, value |-> calls[i].args.attributes]
            /\ \A r \in RequestsOf(i) :
                (/\ Done(i, "updateCurrentUser") /\ Succeeded(calls[i])
                 /\ Get(Get(Envelope(calls[i]), "user"), "attributes")
                        = Get(requests[r].request.body, "attributes")) =>
                    /\ calls[i].outcome.status = "resolved"
                    /\ Get(calls[i].outcome.value, "attributes") = calls[i].args.attributes

\* the value a call sends in a form field, encoded: the field's name and the value
EncodedField(call) ==
    CASE call.op \in {"updateCurrentUser", "createUser", "updateUserAttributes"} ->
            [name |-> "attributes", value |-> call.args.attributes]
      [] call.op \in {"createGroup", "updateGroup"} ->
            [name |-> "policy", value |-> call.args.policy]
      [] call.op \in {"createSchema", "updateSchema", "createUserSchema", "updateUserSchema"} ->
            [name |-> "schema",
             value |-> Obj([name |-> Str(call.args.name), fields |-> call.args.fields])]
      [] call.op \in {"searchUsers", "searchDocuments"} ->
            [name |-> "search_option", value |-> call.args.searchOption]
      [] OTHER -> [name |-> "", value |-> Undefined]

\* the operations that send document contents
SendsDocument(call) == call.op \in {"createDocument", "updateDocument"}

\* every request of an operation with a form field to encode holds
\* base64(JSON.stringify(value)) in that field
FormFieldsEncoded ==
    \A r \in 1..Len(requests) :
        LET call == calls[requests[r].call]
            field == EncodedField(call)
        IN Truthy(field.value) =>
            Get(requests[r].request.body, field.name)
                = Str(base64_encode(JSON_stringify(field.value).s))

\* C13 as stated: every request of an operation that sends user attributes,
\* a group policy, a schema definition, a search option or document
\* contents holds base64(JSON.stringify(value)) for that value, the document
\* field of createDocument and updateDocument included.
C13_AllFieldsEncoded ==
    /\ FormFieldsEncoded
    /\ \A r \in 1..Len(requests) :
        LET call == calls[requests[r].call] IN
        SendsDocument(call) =>
            Get(requests[r].request.body, "document")
                = Str(base64_encode(JSON_stringify(call.args.document).s))

\* C13 as amended: user attributes, group policy, schema definition and
\* search option are sent as base64(JSON.stringify(value)); createDocument
\* and updateDocument send the document contents unencoded, as the document
\* member of the JSON text that is the body of the request.
C13_FormFieldsEncodedDocumentsJSON ==
    /\ FormFieldsEncoded
    /\ \A r \in 1..Len(requests) :
        LET call == calls[requests[r].call]
            body == requests[r].request.body
        IN SendsDocument(call) =>
            /\ body.type = "string"
            /\ ~JSON_parse(body.s).threw
            /\ Get(JSON_parse(body.s).value, "document") = call.args.document

\* updateUserAttributes has sent {a: 1}, with the text computed by hand
C13_Witness ==
    /\ Len(requests) = 1
    /\ calls[1].op = "updateUserAttributes"
    /\ calls[1].args.attributes = Obj(Prop("a", Num(1)))
    /\ requests[1].request.body = Obj(Prop("attributes", Str("eyJhIjoxfQ==")))

\* an item whose field is a base64-JSON string, with the field parsed
DecodedItem(item, field) ==
    IF Get(item, field).type = "string" /\ ~Decoded(Get(item, field).s).threw
    THEN SetProp(item, field, Decoded(Get(item, field).s).value)
    ELSE item

DecodedItems(items, field) == [k \in 1..Len(items) |-> DecodedItem(items[k], field)]

\* the search has resolved with the items of the response, the field decoded
SearchDecodes(i, field) ==
    LET data == Get(Envelope(calls[i]), "data") IN
    /\ calls[i].outcome.status = "resolved"
    /\ Get(calls[i].outcome.value, "info") = Get(data, "info")
    /\ Get(calls[i].outcome.value, "documents")
        = Arr(DecodedItems(Get(data, "documents").items, field))

\* C14: searchUsers, searchDocuments and readUsers hand the caller the items
\* of the response in the response's order, each as the server sent it but
\* for the attributes (users) or document (documents) field, which holds
\* the parsed object where the response holds a base64-JSON string.
C14_ItemsDecoded ==
    \A i \in 1..Len(calls) :
        (calls[i].stage = "done" /\ Succeeded(calls[i])) =>
            /\ calls[i].op = "searchUsers" => SearchDecodes(i, "attributes")
            /\ calls[i].op = "searchDocuments" => SearchDecodes(i, "document")
            /\ calls[i].op = "readUsers" =>
                calls[i].outcome
                    = Resolved(Arr(DecodedItems(Get(Envelope(calls[i]), "users").items,
                                                "attributes")))

\* an authentication specifier that is neither an object nor null
NotObjectNorNull(authn) == authn.type \in {"string", "number", "boolean"}

\* C15: new TrueVaultClient(authn) with a string, a number or a boolean,
\* the empty string, 0 and false included, throws and no client comes of it.
C15_NonObjectAuthnThrows ==
    /\ NotObjectNorNull(lastNew.authn) => lastNew.threw /\ lastNew.client = 0
    /\ \A i \in 1..Len(clients) : ~NotObjectNorNull(made[i].authn)

\* C16: the accessToken accessor yields t for a client constructed from
\* {accessToken: t}, as login's clients are, and throws for a client
\* constructed from an API key, a raw HTTP-Basic value or no authentication.
C16_AccessTokenAccessor ==
    /\ \A i \in 1..Len(clients) :
        LET authn == made[i].authn IN
        /\ HasOwn(authn, "accessToken") =>
                accessToken(clients[i]) = [threw |-> FALSE, value |-> Get(authn, "accessToken")]
        /\ (HasOwn(authn, "apiKey") \/ HasOwn(authn, "httpBasic") \/ ~CanRead(authn)) =>
                /\ accessToken(clients[i]).threw
                /\ accessToken(clients[i]).error.name = "Error"
    /\ \A i \in 1..Len(calls) :
        (Done(i, "login") /\ calls[i].outcome.status = "resolved") =>
            accessToken(clients[calls[i].outcome.value.ref])
                = [threw |-> FALSE,
                   value |-> Get(Get(Envelope(calls[i]), "user"), "access_token")]

\* an API-key client whose accessor throws beside login's client whose
\* accessor yields the token of the response
C16_Witness ==
    /\ Len(clients) = 2
    /\ made[1].authn = Obj(Prop("apiKey", Str("k")))
    /\ accessToken(clients[1]).threw
    /\ \E i \in 1..Len(calls) :
        /\ Done(i, "login") /\ calls[i].outcome = Resolved([type |-> "client", ref |-> 2])
    /\ accessToken(clients[2]) = [threw |-> FALSE, value |-> Str("s.2")]

\* C17: after logout() has resolved the client holds no credential:
\* authHeader is null and the accessToken accessor throws as for a client
\* without a token; before that, a client with a token holds the header
\* derived from that token and no other.
C17_LogoutClearsCredential ==
    \A c \in 1..Len(clients) :
        IF LoggedOut(c)
        THEN authHeader(clients[c]) = Null /\ accessToken(clients[c]).threw
        ELSE Truthy(clients[c]._accessToken) =>
                authHeader(clients[c]) = Str(BasicOf(clients[c]._accessToken.s))

\* C18: every call of an operation has issued exactly one request, a call
\* of getDocuments with an empty id list none; this stays so after the
\* response, whatever it was: no call ever has a second request.
C18_OneRequestPerCall ==
    \A i \in 1..Len(calls) :
        IF calls[i].op = "getDocuments" /\ Len(calls[i].args.documentIds) = 0
        THEN RequestsOf(i) = {}
        ELSE Cardinality(RequestsOf(i)) = 1

\* C19: once the transport has delivered a response or a failure and the
\* operation's handler has run, the promise of the call is settled: it has
\* resolved or rejected, whatever the body was.
C19_EveryCallSettles ==
    \A i \in 1..Len(calls) :
        calls[i].stage = "done" => calls[i].outcome.status \in {"resolved", "rejected"}

\* the XHR of the call has loaded an error envelope with its error object
LoadedErrorEnvelope(call) ==
    /\ call.op \in {"createBlobWithProgress", "updateBlobWithProgress"}
    /\ call.stage = "done" /\ call.res.kind = "load"
    /\ Get(call.res.response, "result") = Str("error")
    /\ Get(call.res.response, "error").type = "object"

\* C20: for an error envelope createBlobWithProgress and
\* updateBlobWithProgress reject with the error the fetch-based primitive
\* rejects with for the same envelope: the message of the error object,
\* the error object, and the transaction_id.
C20_ProgressErrorLikePrimitive ==
    \A i \in 1..Len(calls) :
        LoadedErrorEnvelope(calls[i]) =>
            LET env == calls[i].res.response IN
            /\ calls[i].outcome.status = "rejected"
            /\ calls[i].outcome.error.message = Get(Get(env, "error"), "message").s
            /\ calls[i].outcome.error.error = Get(env, "error")
            /\ calls[i].outcome.error.transaction_id = Get(env, "transaction_id")
            /\ calls[i].outcome = performLegacyRequest_then(Response(400, JSON(env)))

\* what an operation makes of the response to its own request
OwnOutcome(call) ==
    CASE call.op = "readCurrentUser" -> readCurrentUser_then(performLegacyRequest_then(call.res))
      [] call.op = "getDocuments" ->
            IF Len(call.args.documentIds) = 0 THEN Resolved(Arr(<<>>))
            ELSE getDocuments_then(performLegacyRequest_then(call.res))
      [] call.op = "getBlob" -> getBlob_then(call.res)
      [] call.op = "createBlobWithProgress" ->
            createBlobWithProgress_then(performLegacyRequestWithProgress_then("json", call.res))
      [] call.op = "getBlobWithProgress" ->
            getBlobWithProgress_then(performLegacyRequestWithProgress_then("blob", call.res))

\* the calls made on the client, none of them a logout
CallsWithoutLogout(c) ==
    /\ c \in 1..Len(clients)
    /\ \A n \in 1..Len(calls) : calls[n].client = c => calls[n].op # "logout"

\* C21: of two calls on one client, neither a logout, each settles with what
\* its operation makes of the response to its own request, whichever
\* response arrives first, and the client's credential and host stay as
\* they were constructed.
C21_ConcurrentCallsIndependent ==
    \A i \in 1..Len(calls) :
        (/\ \E j \in 1..Len(calls) : i # j /\ calls[i].client = calls[j].client
         /\ CallsWithoutLogout(calls[i].client)) =>
            LET c == calls[i].client IN
            /\ clients[c] = constructor(made[c].authn, made[c].host).this
            /\ authHeader(clients[c]) = calls[i].hdr
            /\ calls[i].stage = "done" => calls[i].outcome = OwnOutcome(calls[i])

\* the later of two calls in flight together has been answered first and has
\* resolved with its own documents, while the earlier still waits
C21_Witness ==
    /\ Len(calls) = 2 /\ calls[1].client = calls[2].client
    /\ calls[1].op = "readCurrentUser" /\ calls[1].stage = "sent"
    /\ calls[2].op = "getDocuments" /\ calls[2].stage = "done"
    /\ calls[2].outcome = Resolved(Arr(<<Document("d1"), Document("d1")>>))
    /\ authHeader(clients[calls[1].client]) = calls[1].hdr

EntityPart(op, response) ==
    CASE op \in {"createVault", "readVault", "updateVault", "deleteVault"} -> Get(response, "vault")
      [] op \in {"createGroup", "readFullGroup", "updateGroup", "deleteGroup"} -> Get(response, "group")
      [] op \in {"createBlob", "createBlobWithProgress", "updateBlob", "updateBlobWithProgress",
                 "updateBlobOwner", "deleteBlob"} -> Get(response, "blob")
      [] op \in {"createSchema", "readSchema", "updateSchema"} -> Get(response, "schema")
      [] op \in {"createUser", "updateUserAttributes", "updateUserStatus", "updateUserUsername",
                 "updateUserPassword", "deleteUser"} -> Get(response, "user")
      [] op = "deleteDocument" ->
            Obj([id |-> Get(response, "document_id"), owner_id |-> Get(response, "owner_id")])
      [] op \in {"addUsersToGroup", "removeUsersFromGroup", "finalizeMfaEnrollment",
                 "unenrollMfa", "deleteSchema", "sendPasswordResetEmail"} -> Undefined

EntityOperations ==
    {"createVault", "readVault", "updateVault", "deleteVault", "createGroup", "readFullGroup",
     "updateGroup", "deleteGroup", "createBlob", "createBlobWithProgress", "updateBlob",
     "updateBlobWithProgress", "updateBlobOwner", "deleteBlob", "createSchema", "readSchema",
     "updateSchema", "createUser", "updateUserAttributes", "updateUserStatus",
     "updateUserUsername", "updateUserPassword", "deleteUser", "deleteDocument",
     "addUsersToGroup", "removeUsersFromGroup", "finalizeMfaEnrollment", "unenrollMfa",
     "deleteSchema", "sendPasswordResetEmail"}

\* the call has settled after its request was answered with a success envelope
SettledOnSuccess(i) ==
    calls[i].stage = "done" /\ calls[i].inner.status = "resolved" /\ CanRead(calls[i].inner.value)

PrimitiveRequests ==
    {r \in 1..Len(requests) :
        /\ requests[r].request.transport = "fetch"
        /\ calls[requests[r].call].op # "getBlob"}

\* C25: a request sent through performLegacyRequest / performJSONRequest by
\* a client holding a credential carries the client's authHeader as its
\* Authorization header, whatever the options passed held, and a request of
\* a client holding none carries no Authorization header.
C25_AuthorizationIsDerived ==
    \A r \in PrimitiveRequests :
        LET hdr == calls[requests[r].call].hdr
            headers == requests[r].request.headers
        IN IF Truthy(hdr)
           THEN "Authorization" \in DOMAIN headers /\ headers["Authorization"] = hdr
           ELSE "Authorization" \notin DOMAIN headers

\* the target whose events tell the progress of the operation's transfer
TransferTarget(op) == IF op = "getBlobWithProgress" THEN "xhr" ELSE "upload"

\* C26: the progress callback given to createBlobWithProgress,
\* updateBlobWithProgress or getBlobWithProgress is invoked for every
\* progress event and for the load event of the transfer (of the upload for
\* create and update, of the download for get), and its invocation for the
\* load event comes before the promise settles.
C26_ProgressCallbackInvoked ==
    \A i \in 1..Len(calls) :
        calls[i].op \in {"createBlobWithProgress", "updateBlobWithProgress", "getBlobWithProgress"} =>
            LET target == TransferTarget(calls[i].op) IN
            /\ \A n \in 1..Len(calls[i].events) :
                    (calls[i].events[n].target = target
                        /\ calls[i].events[n].type \in {"progress", "load"}) =>
                            calls[i].events[n].called
            /\ (calls[i].stage \in {"received", "done"} /\ calls[i].res.kind = "load") =>
                    \E n \in EventsSeen(i, target, "load") :
                        calls[i].events[n].called /\ ~calls[i].events[n].settled

\* an upload has resolved after the callback saw a progress event and the
\* load event of the upload
C26_Witness ==
    \E i \in 1..Len(calls) :
        /\ Done(i, "updateBlobWithProgress") /\ calls[i].outcome.status = "resolved"
        /\ \E n \in EventsSeen(i, "upload", "progress") : calls[i].events[n].called
        /\ \E n \in EventsSeen(i, "upload", "load") : calls[i].events[n].called
        /\ \E n \in EventsSeen(i, "xhr", "progress") : ~calls[i].events[n].called

\* the logout of a client whose request succeeded resumes in this step
LogoutSucceeds(c) ==
    \E i \in 1..Len(calls) :
        /\ calls[i].op = "logout" /\ calls[i].client = c
        /\ calls[i].stage = "received" /\ calls'[i].stage = "done"
        /\ calls'[i].inner.status = "resolved"

\* C27: every step of every operation leaves the host and the authHeader of
\* each existing client as they were, except the step in which a logout of
\* the client succeeds, which changes its authHeader only (to null); login
\* and generateAccessToken change no existing client.
C27_CredentialAndHostFrame ==
    [][\A c \in 1..Len(clients) :
            /\ c \in 1..Len(clients')
            /\ clients'[c].host = clients[c].host
            /\ IF LogoutSucceeds(c)
               THEN clients'[c] = [clients[c] EXCEPT !._authHeader = Null]
               ELSE clients'[c] = clients[c]]_vars

\* a logout has succeeded on a client that held a credential: its authHeader
\* is null and its host is the one it was constructed with
C27_Witness ==
    \E i \in 1..Len(calls) :
        /\ Done(i, "logout") /\ calls[i].inner.status = "resolved"
        /\ calls[i].hdr # Null
        /\ clients[calls[i].client]._authHeader = Null
        /\ clients[calls[i].client].host = constructor(made[calls[i].client].authn,
                                                       made[calls[i].client].host).this.host

\* the answers with which a logout request fails: a transport failure, an
\* error envelope, a body that is not JSON
LogoutFailures ==
    {Failure, Response(401, JSON(ErrorEnvelope)),
     Response(502, NonJSON("<html>Bad Gateway</html>")), Response(200, NonJSON(""))}

\* the logouts of the client that have failed
FailedLogouts(c) ==
    {i \in 1..Len(calls) :
        Done(i, "logout") /\ calls[i].client = c /\ calls[i].res \in LogoutFailures}

\* C28: when the request of a logout fails (with an error envelope, a body
\* that is not JSON, or in transport), logout rejects and leaves the client
\* as it was, and a call made after that on a client holding a credential is
\* sent with the credential the client held before the logout.
C28_FailedLogoutKeepsCredential ==
    [][/\ \A i \in 1..Len(calls) :
            (/\ calls[i].op = "logout" /\ calls[i].res \in LogoutFailures
             /\ calls[i].stage = "received" /\ calls'[i].stage = "done") =>
                /\ calls'[i].outcome.status = "rejected"
                /\ clients' = clients
       /\ \A c \in 1..Len(clients) :
            (/\ Len(calls') > Len(calls) /\ calls'[Len(calls')].client = c
             /\ FailedLogouts(c) # {}
             /\ \A k \in 1..Len(calls) : calls[k].op = "logout" => k \in FailedLogouts(c)) =>
                \A i \in FailedLogouts(c) :
                    \A r \in 1..Len(requests') :
                        (requests'[r].call = Len(calls') /\ calls[i].hdr # Null) =>
                                /\ "Authorization" \in DOMAIN requests'[r].request.headers
                                /\ requests'[r].request.headers["Authorization"] = calls[i].hdr]_vars

\* a logout has failed on a body that is not JSON, and a later call on the
\* client has carried the credential the logout was sent with
C28_Witness ==
    \E i, k \in 1..Len(calls) :
        /\ i < k /\ calls[k].client = calls[i].client
        /\ i \in FailedLogouts(calls[i].client)
        /\ calls[i].res.kind = "response" /\ ~calls[i].res.body.isJSON
        /\ calls[i].hdr # Null /\ calls[k].hdr = calls[i].hdr
        /\ calls[k].stage = "done"

\* the call's request went through performLegacyRequest and has settled
ThroughLegacyRequest(i) ==
    /\ calls[i].stage = "done" /\ calls[i].op # "getBlob"
    /\ calls[i].res.kind \in {"failure", "response"}

\* the four kinds of outcome of performLegacyRequest
IsSuccessPayload(res, r) ==
    r.status = "resolved" /\ res.kind = "response" /\ res.body.isJSON /\ r.value = res.body.value
IsApiError(res, r) ==
    /\ r.status = "rejected" /\ res.kind = "response" /\ res.body.isJSON
    /\ r.error.name = "Error" /\ r.error.error # Undefined
    /\ r.error.error = Get(res.body.value, "error")
IsMalformedResponseError(res, r) ==
    /\ r.status = "rejected" /\ res.kind = "response" /\ ~res.body.isJSON
    /\ r.error.name = "Error" /\ r.error.message = "non-JSON response: " \o res.body.text
IsTransportFailure(res, r) ==
    r.status = "rejected" /\ res.kind = "failure" /\ r.error = FetchError

\* C29: every outcome of a request made through performLegacyRequest is the
\* parsed success payload, the error built from an error envelope, the error
\* of a malformed response with the raw text, or the failure of the
\* transport; no response body leads to a failure of another kind.
C29_FourKindsOfOutcome ==
    \A i \in 1..Len(calls) :
        ThroughLegacyRequest(i) =>
            \/ IsSuccessPayload(calls[i].res, calls[i].inner)
            \/ IsApiError(calls[i].res, calls[i].inner)
            \/ IsMalformedResponseError(calls[i].res, calls[i].inner)
            \/ IsTransportFailure(calls[i].res, calls[i].inner)

\* the header that corresponds to an authentication object
HeaderFor(authn) ==
    IF HasOwn(authn, "apiKey") THEN Str(BasicOf(ToStr(Get(authn, "apiKey"))))
    ELSE IF HasOwn(authn, "accessToken") THEN Str(BasicOf(ToStr(Get(authn, "accessToken"))))
    ELSE IF HasOwn(authn, "httpBasic") THEN Str("Basic " \o ToStr(Get(authn, "httpBasic")))
    ELSE Null

\* C30: new TrueVaultClient(authn, host) succeeds when authn is null, absent
\* or any object: with one of the keys apiKey, accessToken and httpBasic,
\* whatever its value (the empty string too), the client has the header of
\* that key, and with none of them its authHeader is null; so login resolves
\* with a client on every success envelope.
C30_ObjectSpecifierConstructs ==
    /\ (lastNew.authn \in {Null, Undefined} \/ TypeOf(lastNew.authn) = "object") =>
            /\ ~lastNew.threw
            /\ (lastNew.client > 0 /\ \A i \in 1..Len(calls) : calls[i].op # "logout") =>
                    authHeader(clients[lastNew.client]) = HeaderFor(lastNew.authn)
    /\ \A i \in 1..Len(calls) :
            (/\ Done(i, "login") /\ HasEnvelope(calls[i])
             /\ Get(Envelope(calls[i]), "result") = Str("success")
             /\ Get(Envelope(calls[i]), "user") # Undefined) =>
                /\ calls[i].outcome.status = "resolved"
                /\ calls[i].outcome.value.type = "client"

====
